---------------------------- MODULE Spec2Model ----------------------------
(***************************************************************************)
(* A model of the data_anonymizer package (anonymizer_core.py, __main__.py).*)
(*                                                                         *)
(* Texts are sequences of characters, each a string: a printable ASCII     *)
(* character is itself, tab, newline, form feed and carriage return are    *)
(* their escapes, and any other character is its code point, "U+00E9".     *)
(* The character classes cover all of Unicode.  Offsets of detection       *)
(* results follow Python: start is 0-based, end is exclusive.  Confidence  *)
(* scores are in hundredths (0.99 is 99).  A hash token is one item of the *)
(* output sequence, "sha256(<salt>+<value>)", an uninterpreted digest.     *)
(*                                                                         *)
(* The detection and redaction engines are libraries outside the package:  *)
(* the pattern recognizers the package registers are modelled from their   *)
(* regular expressions, one built-in recognizer stands for the engine's    *)
(* own, and redaction follows the contract apply(text, spans, operators).  *)
(* A text column of a table has dtype "object", as pandas before 3.0 gives *)
(* it.  The console is utf-8 with strict errors, as Python sets it up.     *)
(***************************************************************************)
EXTENDS Integers, Sequences, FiniteSets, TLC

(***************************************************************************)
(* Bounds of the model.                                                    *)
(***************************************************************************)
MaxCalls == 2
MaxRows == 2

(***************************************************************************)
(* Characters and Python string operations.                                *)
(***************************************************************************)
\* [0-9] of the regular expressions
AsciiDigits == {"0", "1", "2", "3", "4", "5", "6", "7", "8", "9"}

UpperAlphabet ==
    <<"A", "B", "C", "D", "E", "F", "G", "H", "I", "J", "K", "L", "M",
      "N", "O", "P", "Q", "R", "S", "T", "U", "V", "W", "X", "Y", "Z">>

LowerAlphabet ==
    <<"a", "b", "c", "d", "e", "f", "g", "h", "i", "j", "k", "l", "m",
      "n", "o", "p", "q", "r", "s", "t", "u", "v", "w", "x", "y", "z">>

\* [A-Z] of the regular expressions.  PatternRecognizer is built without
\* global_regex_flags, so the pattern is matched with the library's default
\* flags, re.IGNORECASE among them: the set holds both cases and the four
\* characters that fold to an ASCII letter (U+0130, U+0131, U+017F, U+212A)
PatternLetters ==
    {UpperAlphabet[i] : i \in 1..Len(UpperAlphabet)}
    \cup {LowerAlphabet[i] : i \in 1..Len(LowerAlphabet)}
    \cup {"U+0130", "U+0131", "U+017F", "U+212A"}

\* the printable characters of ASCII, U+0020 to U+007E; the grave accent
\* cannot be written in a string and is its code point
Ascii ==
    <<" ", "!", "\"", "#", "$", "%", "&", "'", "(", ")", "*", "+", ",", "-",
      ".", "/", "0", "1", "2", "3", "4", "5", "6", "7", "8", "9", ":", ";",
      "<", "=", ">", "?", "@", "A", "B", "C", "D", "E", "F", "G", "H", "I",
      "J", "K", "L", "M", "N", "O", "P", "Q", "R", "S", "T", "U", "V", "W",
      "X", "Y", "Z", "[", "\\", "]", "^", "_", "U+0060", "a", "b", "c", "d", "e",
      "f", "g", "h", "i", "j", "k", "l", "m", "n", "o", "p", "q", "r", "s",
      "t", "u", "v", "w", "x", "y", "z", "{", "|", "}", "~">>

AsciiCode ==
    [c \in {Ascii[i] : i \in 1..Len(Ascii)} |->
        31 + CHOOSE i \in 1..Len(Ascii) : Ascii[i] = c]

HexDigits ==
    <<"0", "1", "2", "3", "4", "5", "6", "7", "8", "9",
      "A", "B", "C", "D", "E", "F">>

HexValue(h) == (CHOOSE i \in 1..Len(HexDigits) : HexDigits[i] = h) - 1

\* the number a string of hexadecimal digits denotes
RECURSIVE HexNumber(_)
HexNumber(h) ==
    IF Len(h) = 1 THEN HexValue(h)
    ELSE 16 * HexNumber(SubSeq(h, 1, Len(h) - 1))
         + HexValue(SubSeq(h, Len(h), Len(h)))

\* the hexadecimal digits of a natural number, as a string
RECURSIVE HexString(_)
HexString(n) ==
    IF n < 16 THEN HexDigits[n + 1]
    ELSE HexString(n \div 16) \o HexDigits[(n % 16) + 1]

\* ord(c): the code point of a character
CodePoint(c) ==
    CASE c \in DOMAIN AsciiCode -> AsciiCode[c]
      [] c = "\t" -> 9
      [] c = "\n" -> 10
      [] c = "\f" -> 12
      [] c = "\r" -> 13
      [] OTHER -> HexNumber(SubSeq(c, 3, Len(c)))

\* chr(n): the character of a code point
Char(n) ==
    CASE n >= 32 /\ n <= 126 -> Ascii[n - 31]
      [] n = 9 -> "\t"
      [] n = 10 -> "\n"
      [] n = 12 -> "\f"
      [] n = 13 -> "\r"
      [] OTHER ->
            "U+" \o (IF n < 16 THEN "000" ELSE IF n < 256 THEN "00"
                     ELSE IF n < 4096 THEN "0" ELSE "")
                 \o HexString(n)

InRanges(n, rr) == \E r \in rr : r[1] <= n /\ n <= r[2]

\* the ranges a line of a table lists
RangesIn(line) ==
    {<<HexNumber(SubSeq(line, 12 * k + 1, 12 * k + 5)),
       HexNumber(SubSeq(line, 12 * k + 7, 12 * k + 11))>> :
        k \in 0..((Len(line) + 1) \div 12 - 1)}

\* \d of the regular expressions: the decimal digits of Unicode
Digits ==
  {"0", "1", "2", "3", "4", "5", "6", "7", "8", "9", "U+0660", "U+0661",
    "U+0662", "U+0663", "U+0664", "U+0665", "U+0666", "U+0667", "U+0668",
    "U+0669", "U+06F0", "U+06F1", "U+06F2", "U+06F3", "U+06F4", "U+06F5",
    "U+06F6", "U+06F7", "U+06F8", "U+06F9", "U+07C0", "U+07C1", "U+07C2",
    "U+07C3", "U+07C4", "U+07C5", "U+07C6", "U+07C7", "U+07C8", "U+07C9",
    "U+0966", "U+0967", "U+0968", "U+0969", "U+096A", "U+096B", "U+096C",
    "U+096D", "U+096E", "U+096F", "U+09E6", "U+09E7", "U+09E8", "U+09E9",
    "U+09EA", "U+09EB", "U+09EC", "U+09ED", "U+09EE", "U+09EF", "U+0A66",
    "U+0A67", "U+0A68", "U+0A69", "U+0A6A", "U+0A6B", "U+0A6C", "U+0A6D",
    "U+0A6E", "U+0A6F", "U+0AE6", "U+0AE7", "U+0AE8", "U+0AE9", "U+0AEA",
    "U+0AEB", "U+0AEC", "U+0AED", "U+0AEE", "U+0AEF", "U+0B66", "U+0B67",
    "U+0B68", "U+0B69", "U+0B6A", "U+0B6B", "U+0B6C", "U+0B6D", "U+0B6E",
    "U+0B6F", "U+0BE6", "U+0BE7", "U+0BE8", "U+0BE9", "U+0BEA", "U+0BEB",
    "U+0BEC", "U+0BED", "U+0BEE", "U+0BEF", "U+0C66", "U+0C67", "U+0C68",
    "U+0C69", "U+0C6A", "U+0C6B", "U+0C6C", "U+0C6D", "U+0C6E", "U+0C6F",
    "U+0CE6", "U+0CE7", "U+0CE8", "U+0CE9", "U+0CEA", "U+0CEB", "U+0CEC",
    "U+0CED", "U+0CEE", "U+0CEF", "U+0D66", "U+0D67", "U+0D68", "U+0D69",
    "U+0D6A", "U+0D6B", "U+0D6C", "U+0D6D", "U+0D6E", "U+0D6F", "U+0DE6",
    "U+0DE7", "U+0DE8", "U+0DE9", "U+0DEA", "U+0DEB", "U+0DEC", "U+0DED",
    "U+0DEE", "U+0DEF", "U+0E50", "U+0E51", "U+0E52", "U+0E53", "U+0E54",
    "U+0E55", "U+0E56", "U+0E57", "U+0E58", "U+0E59", "U+0ED0", "U+0ED1",
    "U+0ED2", "U+0ED3", "U+0ED4", "U+0ED5", "U+0ED6", "U+0ED7", "U+0ED8",
    "U+0ED9", "U+0F20", "U+0F21", "U+0F22", "U+0F23", "U+0F24", "U+0F25",
    "U+0F26", "U+0F27", "U+0F28", "U+0F29", "U+1040", "U+1041", "U+1042",
    "U+1043", "U+1044", "U+1045", "U+1046", "U+1047", "U+1048", "U+1049",
    "U+1090", "U+1091", "U+1092", "U+1093", "U+1094", "U+1095", "U+1096",
    "U+1097", "U+1098", "U+1099", "U+17E0", "U+17E1", "U+17E2", "U+17E3",
    "U+17E4", "U+17E5", "U+17E6", "U+17E7", "U+17E8", "U+17E9", "U+1810",
    "U+1811", "U+1812", "U+1813", "U+1814", "U+1815", "U+1816", "U+1817",
    "U+1818", "U+1819", "U+1946", "U+1947", "U+1948", "U+1949", "U+194A",
    "U+194B", "U+194C", "U+194D", "U+194E", "U+194F", "U+19D0", "U+19D1",
    "U+19D2", "U+19D3", "U+19D4", "U+19D5", "U+19D6", "U+19D7", "U+19D8",
    "U+19D9", "U+1A80", "U+1A81", "U+1A82", "U+1A83", "U+1A84", "U+1A85",
    "U+1A86", "U+1A87", "U+1A88", "U+1A89", "U+1A90", "U+1A91", "U+1A92",
    "U+1A93", "U+1A94", "U+1A95", "U+1A96", "U+1A97", "U+1A98", "U+1A99",
    "U+1B50", "U+1B51", "U+1B52", "U+1B53", "U+1B54", "U+1B55", "U+1B56",
    "U+1B57", "U+1B58", "U+1B59", "U+1BB0", "U+1BB1", "U+1BB2", "U+1BB3",
    "U+1BB4", "U+1BB5", "U+1BB6", "U+1BB7", "U+1BB8", "U+1BB9", "U+1C40",
    "U+1C41", "U+1C42", "U+1C43", "U+1C44", "U+1C45", "U+1C46", "U+1C47",
    "U+1C48", "U+1C49", "U+1C50", "U+1C51", "U+1C52", "U+1C53", "U+1C54",
    "U+1C55", "U+1C56", "U+1C57", "U+1C58", "U+1C59", "U+A620", "U+A621",
    "U+A622", "U+A623", "U+A624", "U+A625", "U+A626", "U+A627", "U+A628",
    "U+A629", "U+A8D0", "U+A8D1", "U+A8D2", "U+A8D3", "U+A8D4", "U+A8D5",
    "U+A8D6", "U+A8D7", "U+A8D8", "U+A8D9", "U+A900", "U+A901", "U+A902",
    "U+A903", "U+A904", "U+A905", "U+A906", "U+A907", "U+A908", "U+A909",
    "U+A9D0", "U+A9D1", "U+A9D2", "U+A9D3", "U+A9D4", "U+A9D5", "U+A9D6",
    "U+A9D7", "U+A9D8", "U+A9D9", "U+A9F0", "U+A9F1", "U+A9F2", "U+A9F3",
    "U+A9F4", "U+A9F5", "U+A9F6", "U+A9F7", "U+A9F8", "U+A9F9", "U+AA50",
    "U+AA51", "U+AA52", "U+AA53", "U+AA54", "U+AA55", "U+AA56", "U+AA57",
    "U+AA58", "U+AA59", "U+ABF0", "U+ABF1", "U+ABF2", "U+ABF3", "U+ABF4",
    "U+ABF5", "U+ABF6", "U+ABF7", "U+ABF8", "U+ABF9", "U+FF10", "U+FF11",
    "U+FF12", "U+FF13", "U+FF14", "U+FF15", "U+FF16", "U+FF17", "U+FF18",
    "U+FF19", "U+104A0", "U+104A1", "U+104A2", "U+104A3", "U+104A4",
    "U+104A5", "U+104A6", "U+104A7", "U+104A8", "U+104A9", "U+10D30",
    "U+10D31", "U+10D32", "U+10D33", "U+10D34", "U+10D35", "U+10D36",
    "U+10D37", "U+10D38", "U+10D39", "U+11066", "U+11067", "U+11068",
    "U+11069", "U+1106A", "U+1106B", "U+1106C", "U+1106D", "U+1106E",
    "U+1106F", "U+110F0", "U+110F1", "U+110F2", "U+110F3", "U+110F4",
    "U+110F5", "U+110F6", "U+110F7", "U+110F8", "U+110F9", "U+11136",
    "U+11137", "U+11138", "U+11139", "U+1113A", "U+1113B", "U+1113C",
    "U+1113D", "U+1113E", "U+1113F", "U+111D0", "U+111D1", "U+111D2",
    "U+111D3", "U+111D4", "U+111D5", "U+111D6", "U+111D7", "U+111D8",
    "U+111D9", "U+112F0", "U+112F1", "U+112F2", "U+112F3", "U+112F4",
    "U+112F5", "U+112F6", "U+112F7", "U+112F8", "U+112F9", "U+11450",
    "U+11451", "U+11452", "U+11453", "U+11454", "U+11455", "U+11456",
    "U+11457", "U+11458", "U+11459", "U+114D0", "U+114D1", "U+114D2",
    "U+114D3", "U+114D4", "U+114D5", "U+114D6", "U+114D7", "U+114D8",
    "U+114D9", "U+11650", "U+11651", "U+11652", "U+11653", "U+11654",
    "U+11655", "U+11656", "U+11657", "U+11658", "U+11659", "U+116C0",
    "U+116C1", "U+116C2", "U+116C3", "U+116C4", "U+116C5", "U+116C6",
    "U+116C7", "U+116C8", "U+116C9", "U+11730", "U+11731", "U+11732",
    "U+11733", "U+11734", "U+11735", "U+11736", "U+11737", "U+11738",
    "U+11739", "U+118E0", "U+118E1", "U+118E2", "U+118E3", "U+118E4",
    "U+118E5", "U+118E6", "U+118E7", "U+118E8", "U+118E9", "U+11950",
    "U+11951", "U+11952", "U+11953", "U+11954", "U+11955", "U+11956",
    "U+11957", "U+11958", "U+11959", "U+11C50", "U+11C51", "U+11C52",
    "U+11C53", "U+11C54", "U+11C55", "U+11C56", "U+11C57", "U+11C58",
    "U+11C59", "U+11D50", "U+11D51", "U+11D52", "U+11D53", "U+11D54",
    "U+11D55", "U+11D56", "U+11D57", "U+11D58", "U+11D59", "U+11DA0",
    "U+11DA1", "U+11DA2", "U+11DA3", "U+11DA4", "U+11DA5", "U+11DA6",
    "U+11DA7", "U+11DA8", "U+11DA9", "U+16A60", "U+16A61", "U+16A62",
    "U+16A63", "U+16A64", "U+16A65", "U+16A66", "U+16A67", "U+16A68",
    "U+16A69", "U+16AC0", "U+16AC1", "U+16AC2", "U+16AC3", "U+16AC4",
    "U+16AC5", "U+16AC6", "U+16AC7", "U+16AC8", "U+16AC9", "U+16B50",
    "U+16B51", "U+16B52", "U+16B53", "U+16B54", "U+16B55", "U+16B56",
    "U+16B57", "U+16B58", "U+16B59", "U+1D7CE", "U+1D7CF", "U+1D7D0",
    "U+1D7D1", "U+1D7D2", "U+1D7D3", "U+1D7D4", "U+1D7D5", "U+1D7D6",
    "U+1D7D7", "U+1D7D8", "U+1D7D9", "U+1D7DA", "U+1D7DB", "U+1D7DC",
    "U+1D7DD", "U+1D7DE", "U+1D7DF", "U+1D7E0", "U+1D7E1", "U+1D7E2",
    "U+1D7E3", "U+1D7E4", "U+1D7E5", "U+1D7E6", "U+1D7E7", "U+1D7E8",
    "U+1D7E9", "U+1D7EA", "U+1D7EB", "U+1D7EC", "U+1D7ED", "U+1D7EE",
    "U+1D7EF", "U+1D7F0", "U+1D7F1", "U+1D7F2", "U+1D7F3", "U+1D7F4",
    "U+1D7F5", "U+1D7F6", "U+1D7F7", "U+1D7F8", "U+1D7F9", "U+1D7FA",
    "U+1D7FB", "U+1D7FC", "U+1D7FD", "U+1D7FE", "U+1D7FF", "U+1E140",
    "U+1E141", "U+1E142", "U+1E143", "U+1E144", "U+1E145", "U+1E146",
    "U+1E147", "U+1E148", "U+1E149", "U+1E2F0", "U+1E2F1", "U+1E2F2",
    "U+1E2F3", "U+1E2F4", "U+1E2F5", "U+1E2F6", "U+1E2F7", "U+1E2F8",
    "U+1E2F9", "U+1E950", "U+1E951", "U+1E952", "U+1E953", "U+1E954",
    "U+1E955", "U+1E956", "U+1E957", "U+1E958", "U+1E959", "U+1FBF0",
    "U+1FBF1", "U+1FBF2", "U+1FBF3", "U+1FBF4", "U+1FBF5", "U+1FBF6",
    "U+1FBF7", "U+1FBF8", "U+1FBF9"}

\* \w of the regular expressions: the word characters of ASCII
AsciiWordChars ==
    {"0", "1", "2", "3", "4", "5", "6", "7", "8", "9", "_",
     "A", "B", "C", "D", "E", "F", "G", "H", "I", "J", "K", "L", "M",
     "N", "O", "P", "Q", "R", "S", "T", "U", "V", "W", "X", "Y", "Z",
     "a", "b", "c", "d", "e", "f", "g", "h", "i", "j", "k", "l", "m",
     "n", "o", "p", "q", "r", "s", "t", "u", "v", "w", "x", "y", "z"}

\* \w of the regular expressions: the word characters beyond ASCII, as
\* ranges of code points, first-last in hexadecimal
WordTable ==
    <<"000AA-000AA 000B2-000B3 000B5-000B5 000B9-000BA 000BC-000BE",
      "000C0-000D6 000D8-000F6 000F8-002C1 002C6-002D1 002E0-002E4",
      "002EC-002EC 002EE-002EE 00370-00374 00376-00377 0037A-0037D",
      "0037F-0037F 00386-00386 00388-0038A 0038C-0038C 0038E-003A1",
      "003A3-003F5 003F7-00481 0048A-0052F 00531-00556 00559-00559",
      "00560-00588 005D0-005EA 005EF-005F2 00620-0064A 00660-00669",
      "0066E-0066F 00671-006D3 006D5-006D5 006E5-006E6 006EE-006FC",
      "006FF-006FF 00710-00710 00712-0072F 0074D-007A5 007B1-007B1",
      "007C0-007EA 007F4-007F5 007FA-007FA 00800-00815 0081A-0081A",
      "00824-00824 00828-00828 00840-00858 00860-0086A 00870-00887",
      "00889-0088E 008A0-008C9 00904-00939 0093D-0093D 00950-00950",
      "00958-00961 00966-0096F 00971-00980 00985-0098C 0098F-00990",
      "00993-009A8 009AA-009B0 009B2-009B2 009B6-009B9 009BD-009BD",
      "009CE-009CE 009DC-009DD 009DF-009E1 009E6-009F1 009F4-009F9",
      "009FC-009FC 00A05-00A0A 00A0F-00A10 00A13-00A28 00A2A-00A30",
      "00A32-00A33 00A35-00A36 00A38-00A39 00A59-00A5C 00A5E-00A5E",
      "00A66-00A6F 00A72-00A74 00A85-00A8D 00A8F-00A91 00A93-00AA8",
      "00AAA-00AB0 00AB2-00AB3 00AB5-00AB9 00ABD-00ABD 00AD0-00AD0",
      "00AE0-00AE1 00AE6-00AEF 00AF9-00AF9 00B05-00B0C 00B0F-00B10",
      "00B13-00B28 00B2A-00B30 00B32-00B33 00B35-00B39 00B3D-00B3D",
      "00B5C-00B5D 00B5F-00B61 00B66-00B6F 00B71-00B77 00B83-00B83",
      "00B85-00B8A 00B8E-00B90 00B92-00B95 00B99-00B9A 00B9C-00B9C",
      "00B9E-00B9F 00BA3-00BA4 00BA8-00BAA 00BAE-00BB9 00BD0-00BD0",
      "00BE6-00BF2 00C05-00C0C 00C0E-00C10 00C12-00C28 00C2A-00C39",
      "00C3D-00C3D 00C58-00C5A 00C5D-00C5D 00C60-00C61 00C66-00C6F",
      "00C78-00C7E 00C80-00C80 00C85-00C8C 00C8E-00C90 00C92-00CA8",
      "00CAA-00CB3 00CB5-00CB9 00CBD-00CBD 00CDD-00CDE 00CE0-00CE1",
      "00CE6-00CEF 00CF1-00CF2 00D04-00D0C 00D0E-00D10 00D12-00D3A",
      "00D3D-00D3D 00D4E-00D4E 00D54-00D56 00D58-00D61 00D66-00D78",
      "00D7A-00D7F 00D85-00D96 00D9A-00DB1 00DB3-00DBB 00DBD-00DBD",
      "00DC0-00DC6 00DE6-00DEF 00E01-00E30 00E32-00E33 00E40-00E46",
      "00E50-00E59 00E81-00E82 00E84-00E84 00E86-00E8A 00E8C-00EA3",
      "00EA5-00EA5 00EA7-00EB0 00EB2-00EB3 00EBD-00EBD 00EC0-00EC4",
      "00EC6-00EC6 00ED0-00ED9 00EDC-00EDF 00F00-00F00 00F20-00F33",
      "00F40-00F47 00F49-00F6C 00F88-00F8C 01000-0102A 0103F-01049",
      "01050-01055 0105A-0105D 01061-01061 01065-01066 0106E-01070",
      "01075-01081 0108E-0108E 01090-01099 010A0-010C5 010C7-010C7",
      "010CD-010CD 010D0-010FA 010FC-01248 0124A-0124D 01250-01256",
      "01258-01258 0125A-0125D 01260-01288 0128A-0128D 01290-012B0",
      "012B2-012B5 012B8-012BE 012C0-012C0 012C2-012C5 012C8-012D6",
      "012D8-01310 01312-01315 01318-0135A 01369-0137C 01380-0138F",
      "013A0-013F5 013F8-013FD 01401-0166C 0166F-0167F 01681-0169A",
      "016A0-016EA 016EE-016F8 01700-01711 0171F-01731 01740-01751",
      "01760-0176C 0176E-01770 01780-017B3 017D7-017D7 017DC-017DC",
      "017E0-017E9 017F0-017F9 01810-01819 01820-01878 01880-01884",
      "01887-018A8 018AA-018AA 018B0-018F5 01900-0191E 01946-0196D",
      "01970-01974 01980-019AB 019B0-019C9 019D0-019DA 01A00-01A16",
      "01A20-01A54 01A80-01A89 01A90-01A99 01AA7-01AA7 01B05-01B33",
      "01B45-01B4C 01B50-01B59 01B83-01BA0 01BAE-01BE5 01C00-01C23",
      "01C40-01C49 01C4D-01C7D 01C80-01C88 01C90-01CBA 01CBD-01CBF",
      "01CE9-01CEC 01CEE-01CF3 01CF5-01CF6 01CFA-01CFA 01D00-01DBF",
      "01E00-01F15 01F18-01F1D 01F20-01F45 01F48-01F4D 01F50-01F57",
      "01F59-01F59 01F5B-01F5B 01F5D-01F5D 01F5F-01F7D 01F80-01FB4",
      "01FB6-01FBC 01FBE-01FBE 01FC2-01FC4 01FC6-01FCC 01FD0-01FD3",
      "01FD6-01FDB 01FE0-01FEC 01FF2-01FF4 01FF6-01FFC 02070-02071",
      "02074-02079 0207F-02089 02090-0209C 02102-02102 02107-02107",
      "0210A-02113 02115-02115 02119-0211D 02124-02124 02126-02126",
      "02128-02128 0212A-0212D 0212F-02139 0213C-0213F 02145-02149",
      "0214E-0214E 02150-02189 02460-0249B 024EA-024FF 02776-02793",
      "02C00-02CE4 02CEB-02CEE 02CF2-02CF3 02CFD-02CFD 02D00-02D25",
      "02D27-02D27 02D2D-02D2D 02D30-02D67 02D6F-02D6F 02D80-02D96",
      "02DA0-02DA6 02DA8-02DAE 02DB0-02DB6 02DB8-02DBE 02DC0-02DC6",
      "02DC8-02DCE 02DD0-02DD6 02DD8-02DDE 02E2F-02E2F 03005-03007",
      "03021-03029 03031-03035 03038-0303C 03041-03096 0309D-0309F",
      "030A1-030FA 030FC-030FF 03105-0312F 03131-0318E 03192-03195",
      "031A0-031BF 031F0-031FF 03220-03229 03248-0324F 03251-0325F",
      "03280-03289 032B1-032BF 03400-04DBF 04E00-0A48C 0A4D0-0A4FD",
      "0A500-0A60C 0A610-0A62B 0A640-0A66E 0A67F-0A69D 0A6A0-0A6EF",
      "0A717-0A71F 0A722-0A788 0A78B-0A7CA 0A7D0-0A7D1 0A7D3-0A7D3",
      "0A7D5-0A7D9 0A7F2-0A801 0A803-0A805 0A807-0A80A 0A80C-0A822",
      "0A830-0A835 0A840-0A873 0A882-0A8B3 0A8D0-0A8D9 0A8F2-0A8F7",
      "0A8FB-0A8FB 0A8FD-0A8FE 0A900-0A925 0A930-0A946 0A960-0A97C",
      "0A984-0A9B2 0A9CF-0A9D9 0A9E0-0A9E4 0A9E6-0A9FE 0AA00-0AA28",
      "0AA40-0AA42 0AA44-0AA4B 0AA50-0AA59 0AA60-0AA76 0AA7A-0AA7A",
      "0AA7E-0AAAF 0AAB1-0AAB1 0AAB5-0AAB6 0AAB9-0AABD 0AAC0-0AAC0",
      "0AAC2-0AAC2 0AADB-0AADD 0AAE0-0AAEA 0AAF2-0AAF4 0AB01-0AB06",
      "0AB09-0AB0E 0AB11-0AB16 0AB20-0AB26 0AB28-0AB2E 0AB30-0AB5A",
      "0AB5C-0AB69 0AB70-0ABE2 0ABF0-0ABF9 0AC00-0D7A3 0D7B0-0D7C6",
      "0D7CB-0D7FB 0F900-0FA6D 0FA70-0FAD9 0FB00-0FB06 0FB13-0FB17",
      "0FB1D-0FB1D 0FB1F-0FB28 0FB2A-0FB36 0FB38-0FB3C 0FB3E-0FB3E",
      "0FB40-0FB41 0FB43-0FB44 0FB46-0FBB1 0FBD3-0FD3D 0FD50-0FD8F",
      "0FD92-0FDC7 0FDF0-0FDFB 0FE70-0FE74 0FE76-0FEFC 0FF10-0FF19",
      "0FF21-0FF3A 0FF41-0FF5A 0FF66-0FFBE 0FFC2-0FFC7 0FFCA-0FFCF",
      "0FFD2-0FFD7 0FFDA-0FFDC 10000-1000B 1000D-10026 10028-1003A",
      "1003C-1003D 1003F-1004D 10050-1005D 10080-100FA 10107-10133",
      "10140-10178 1018A-1018B 10280-1029C 102A0-102D0 102E1-102FB",
      "10300-10323 1032D-1034A 10350-10375 10380-1039D 103A0-103C3",
      "103C8-103CF 103D1-103D5 10400-1049D 104A0-104A9 104B0-104D3",
      "104D8-104FB 10500-10527 10530-10563 10570-1057A 1057C-1058A",
      "1058C-10592 10594-10595 10597-105A1 105A3-105B1 105B3-105B9",
      "105BB-105BC 10600-10736 10740-10755 10760-10767 10780-10785",
      "10787-107B0 107B2-107BA 10800-10805 10808-10808 1080A-10835",
      "10837-10838 1083C-1083C 1083F-10855 10858-10876 10879-1089E",
      "108A7-108AF 108E0-108F2 108F4-108F5 108FB-1091B 10920-10939",
      "10980-109B7 109BC-109CF 109D2-10A00 10A10-10A13 10A15-10A17",
      "10A19-10A35 10A40-10A48 10A60-10A7E 10A80-10A9F 10AC0-10AC7",
      "10AC9-10AE4 10AEB-10AEF 10B00-10B35 10B40-10B55 10B58-10B72",
      "10B78-10B91 10BA9-10BAF 10C00-10C48 10C80-10CB2 10CC0-10CF2",
      "10CFA-10D23 10D30-10D39 10E60-10E7E 10E80-10EA9 10EB0-10EB1",
      "10F00-10F27 10F30-10F45 10F51-10F54 10F70-10F81 10FB0-10FCB",
      "10FE0-10FF6 11003-11037 11052-1106F 11071-11072 11075-11075",
      "11083-110AF 110D0-110E8 110F0-110F9 11103-11126 11136-1113F",
      "11144-11144 11147-11147 11150-11172 11176-11176 11183-111B2",
      "111C1-111C4 111D0-111DA 111DC-111DC 111E1-111F4 11200-11211",
      "11213-1122B 11280-11286 11288-11288 1128A-1128D 1128F-1129D",
      "1129F-112A8 112B0-112DE 112F0-112F9 11305-1130C 1130F-11310",
      "11313-11328 1132A-11330 11332-11333 11335-11339 1133D-1133D",
      "11350-11350 1135D-11361 11400-11434 11447-1144A 11450-11459",
      "1145F-11461 11480-114AF 114C4-114C5 114C7-114C7 114D0-114D9",
      "11580-115AE 115D8-115DB 11600-1162F 11644-11644 11650-11659",
      "11680-116AA 116B8-116B8 116C0-116C9 11700-1171A 11730-1173B",
      "11740-11746 11800-1182B 118A0-118F2 118FF-11906 11909-11909",
      "1190C-11913 11915-11916 11918-1192F 1193F-1193F 11941-11941",
      "11950-11959 119A0-119A7 119AA-119D0 119E1-119E1 119E3-119E3",
      "11A00-11A00 11A0B-11A32 11A3A-11A3A 11A50-11A50 11A5C-11A89",
      "11A9D-11A9D 11AB0-11AF8 11C00-11C08 11C0A-11C2E 11C40-11C40",
      "11C50-11C6C 11C72-11C8F 11D00-11D06 11D08-11D09 11D0B-11D30",
      "11D46-11D46 11D50-11D59 11D60-11D65 11D67-11D68 11D6A-11D89",
      "11D98-11D98 11DA0-11DA9 11EE0-11EF2 11FB0-11FB0 11FC0-11FD4",
      "12000-12399 12400-1246E 12480-12543 12F90-12FF0 13000-1342E",
      "14400-14646 16800-16A38 16A40-16A5E 16A60-16A69 16A70-16ABE",
      "16AC0-16AC9 16AD0-16AED 16B00-16B2F 16B40-16B43 16B50-16B59",
      "16B5B-16B61 16B63-16B77 16B7D-16B8F 16E40-16E96 16F00-16F4A",
      "16F50-16F50 16F93-16F9F 16FE0-16FE1 16FE3-16FE3 17000-187F7",
      "18800-18CD5 18D00-18D08 1AFF0-1AFF3 1AFF5-1AFFB 1AFFD-1AFFE",
      "1B000-1B122 1B150-1B152 1B164-1B167 1B170-1B2FB 1BC00-1BC6A",
      "1BC70-1BC7C 1BC80-1BC88 1BC90-1BC99 1D2E0-1D2F3 1D360-1D378",
      "1D400-1D454 1D456-1D49C 1D49E-1D49F 1D4A2-1D4A2 1D4A5-1D4A6",
      "1D4A9-1D4AC 1D4AE-1D4B9 1D4BB-1D4BB 1D4BD-1D4C3 1D4C5-1D505",
      "1D507-1D50A 1D50D-1D514 1D516-1D51C 1D51E-1D539 1D53B-1D53E",
      "1D540-1D544 1D546-1D546 1D54A-1D550 1D552-1D6A5 1D6A8-1D6C0",
      "1D6C2-1D6DA 1D6DC-1D6FA 1D6FC-1D714 1D716-1D734 1D736-1D74E",
      "1D750-1D76E 1D770-1D788 1D78A-1D7A8 1D7AA-1D7C2 1D7C4-1D7CB",
      "1D7CE-1D7FF 1DF00-1DF1E 1E100-1E12C 1E137-1E13D 1E140-1E149",
      "1E14E-1E14E 1E290-1E2AD 1E2C0-1E2EB 1E2F0-1E2F9 1E7E0-1E7E6",
      "1E7E8-1E7EB 1E7ED-1E7EE 1E7F0-1E7FE 1E800-1E8C4 1E8C7-1E8CF",
      "1E900-1E943 1E94B-1E94B 1E950-1E959 1EC71-1ECAB 1ECAD-1ECAF",
      "1ECB1-1ECB4 1ED01-1ED2D 1ED2F-1ED3D 1EE00-1EE03 1EE05-1EE1F",
      "1EE21-1EE22 1EE24-1EE24 1EE27-1EE27 1EE29-1EE32 1EE34-1EE37",
      "1EE39-1EE39 1EE3B-1EE3B 1EE42-1EE42 1EE47-1EE47 1EE49-1EE49",
      "1EE4B-1EE4B 1EE4D-1EE4F 1EE51-1EE52 1EE54-1EE54 1EE57-1EE57",
      "1EE59-1EE59 1EE5B-1EE5B 1EE5D-1EE5D 1EE5F-1EE5F 1EE61-1EE62",
      "1EE64-1EE64 1EE67-1EE6A 1EE6C-1EE72 1EE74-1EE77 1EE79-1EE7C",
      "1EE7E-1EE7E 1EE80-1EE89 1EE8B-1EE9B 1EEA1-1EEA3 1EEA5-1EEA9",
      "1EEAB-1EEBB 1F100-1F10C 1FBF0-1FBF9 20000-2A6DF 2A700-2B738",
      "2B740-2B81D 2B820-2CEA1 2CEB0-2EBE0 2F800-2FA1D 30000-3134A">>

WordRangesOther == UNION {RangesIn(WordTable[i]) : i \in 1..Len(WordTable)}

\* the characters str.strip() removes: the white space of Unicode
WhiteSpace ==
  {"\t", "\n", "U+000B", "\f", "\r", "U+001C", "U+001D", "U+001E",
    "U+001F", " ", "U+0085", "U+00A0", "U+1680", "U+2000", "U+2001",
    "U+2002", "U+2003", "U+2004", "U+2005", "U+2006", "U+2007", "U+2008",
    "U+2009", "U+200A", "U+2028", "U+2029", "U+202F", "U+205F", "U+3000"}

\* str.lower() where it gives one character: "lo-hi step delta" lowers the
\* code points lo, lo + step, ..., hi by adding delta (hexadecimal)
LowerTable ==
    <<"00041-0005A 1 +00020 000C0-000D6 1 +00020 000D8-000DE 1 +00020",
      "00100-0012E 2 +00001 00132-00136 2 +00001 00139-00147 2 +00001",
      "0014A-00176 2 +00001 00178-00178 1 -00079 00179-0017D 2 +00001",
      "00181-00181 1 +000D2 00182-00184 2 +00001 00186-00186 1 +000CE",
      "00187-00187 1 +00001 00189-0018A 1 +000CD 0018B-0018B 1 +00001",
      "0018E-0018E 1 +0004F 0018F-0018F 1 +000CA 00190-00190 1 +000CB",
      "00191-00191 1 +00001 00193-00193 1 +000CD 00194-00194 1 +000CF",
      "00196-00196 1 +000D3 00197-00197 1 +000D1 00198-00198 1 +00001",
      "0019C-0019C 1 +000D3 0019D-0019D 1 +000D5 0019F-0019F 1 +000D6",
      "001A0-001A4 2 +00001 001A6-001A6 1 +000DA 001A7-001A7 1 +00001",
      "001A9-001A9 1 +000DA 001AC-001AC 1 +00001 001AE-001AE 1 +000DA",
      "001AF-001AF 1 +00001 001B1-001B2 1 +000D9 001B3-001B5 2 +00001",
      "001B7-001B7 1 +000DB 001B8-001B8 1 +00001 001BC-001BC 1 +00001",
      "001C4-001C4 1 +00002 001C5-001C5 1 +00001 001C7-001C7 1 +00002",
      "001C8-001C8 1 +00001 001CA-001CA 1 +00002 001CB-001DB 2 +00001",
      "001DE-001EE 2 +00001 001F1-001F1 1 +00002 001F2-001F4 2 +00001",
      "001F6-001F6 1 -00061 001F7-001F7 1 -00038 001F8-0021E 2 +00001",
      "00220-00220 1 -00082 00222-00232 2 +00001 0023A-0023A 1 +02A2B",
      "0023B-0023B 1 +00001 0023D-0023D 1 -000A3 0023E-0023E 1 +02A28",
      "00241-00241 1 +00001 00243-00243 1 -000C3 00244-00244 1 +00045",
      "00245-00245 1 +00047 00246-0024E 2 +00001 00370-00372 2 +00001",
      "00376-00376 1 +00001 0037F-0037F 1 +00074 00386-00386 1 +00026",
      "00388-0038A 1 +00025 0038C-0038C 1 +00040 0038E-0038F 1 +0003F",
      "00391-003A1 1 +00020 003A3-003AB 1 +00020 003CF-003CF 1 +00008",
      "003D8-003EE 2 +00001 003F4-003F4 1 -0003C 003F7-003F7 1 +00001",
      "003F9-003F9 1 -00007 003FA-003FA 1 +00001 003FD-003FF 1 -00082",
      "00400-0040F 1 +00050 00410-0042F 1 +00020 00460-00480 2 +00001",
      "0048A-004BE 2 +00001 004C0-004C0 1 +0000F 004C1-004CD 2 +00001",
      "004D0-0052E 2 +00001 00531-00556 1 +00030 010A0-010C5 1 +01C60",
      "010C7-010C7 1 +01C60 010CD-010CD 1 +01C60 013A0-013EF 1 +097D0",
      "013F0-013F5 1 +00008 01C90-01CBA 1 -00BC0 01CBD-01CBF 1 -00BC0",
      "01E00-01E94 2 +00001 01E9E-01E9E 1 -01DBF 01EA0-01EFE 2 +00001",
      "01F08-01F0F 1 -00008 01F18-01F1D 1 -00008 01F28-01F2F 1 -00008",
      "01F38-01F3F 1 -00008 01F48-01F4D 1 -00008 01F59-01F5F 2 -00008",
      "01F68-01F6F 1 -00008 01F88-01F8F 1 -00008 01F98-01F9F 1 -00008",
      "01FA8-01FAF 1 -00008 01FB8-01FB9 1 -00008 01FBA-01FBB 1 -0004A",
      "01FBC-01FBC 1 -00009 01FC8-01FCB 1 -00056 01FCC-01FCC 1 -00009",
      "01FD8-01FD9 1 -00008 01FDA-01FDB 1 -00064 01FE8-01FE9 1 -00008",
      "01FEA-01FEB 1 -00070 01FEC-01FEC 1 -00007 01FF8-01FF9 1 -00080",
      "01FFA-01FFB 1 -0007E 01FFC-01FFC 1 -00009 02126-02126 1 -01D5D",
      "0212A-0212A 1 -020BF 0212B-0212B 1 -02046 02132-02132 1 +0001C",
      "02160-0216F 1 +00010 02183-02183 1 +00001 024B6-024CF 1 +0001A",
      "02C00-02C2F 1 +00030 02C60-02C60 1 +00001 02C62-02C62 1 -029F7",
      "02C63-02C63 1 -00EE6 02C64-02C64 1 -029E7 02C67-02C6B 2 +00001",
      "02C6D-02C6D 1 -02A1C 02C6E-02C6E 1 -029FD 02C6F-02C6F 1 -02A1F",
      "02C70-02C70 1 -02A1E 02C72-02C72 1 +00001 02C75-02C75 1 +00001",
      "02C7E-02C7F 1 -02A3F 02C80-02CE2 2 +00001 02CEB-02CED 2 +00001",
      "02CF2-02CF2 1 +00001 0A640-0A66C 2 +00001 0A680-0A69A 2 +00001",
      "0A722-0A72E 2 +00001 0A732-0A76E 2 +00001 0A779-0A77B 2 +00001",
      "0A77D-0A77D 1 -08A04 0A77E-0A786 2 +00001 0A78B-0A78B 1 +00001",
      "0A78D-0A78D 1 -0A528 0A790-0A792 2 +00001 0A796-0A7A8 2 +00001",
      "0A7AA-0A7AA 1 -0A544 0A7AB-0A7AB 1 -0A54F 0A7AC-0A7AC 1 -0A54B",
      "0A7AD-0A7AD 1 -0A541 0A7AE-0A7AE 1 -0A544 0A7B0-0A7B0 1 -0A512",
      "0A7B1-0A7B1 1 -0A52A 0A7B2-0A7B2 1 -0A515 0A7B3-0A7B3 1 +003A0",
      "0A7B4-0A7C2 2 +00001 0A7C4-0A7C4 1 -00030 0A7C5-0A7C5 1 -0A543",
      "0A7C6-0A7C6 1 -08A38 0A7C7-0A7C9 2 +00001 0A7D0-0A7D0 1 +00001",
      "0A7D6-0A7D8 2 +00001 0A7F5-0A7F5 1 +00001 0FF21-0FF3A 1 +00020",
      "10400-10427 1 +00028 104B0-104D3 1 +00028 10570-1057A 1 +00027",
      "1057C-1058A 1 +00027 1058C-10592 1 +00027 10594-10595 1 +00027",
      "10C80-10CB2 1 +00040 118A0-118BF 1 +00020 16E40-16E5F 1 +00020",
      "1E900-1E921 1 +00022">>

\* the segments <<lo, hi, step, delta>> a line of the table lists
SegmentsIn(line) ==
    {<<HexNumber(SubSeq(line, 21 * k + 1, 21 * k + 5)),
       HexNumber(SubSeq(line, 21 * k + 7, 21 * k + 11)),
       HexNumber(SubSeq(line, 21 * k + 13, 21 * k + 13)),
       (IF SubSeq(line, 21 * k + 15, 21 * k + 15) = "-" THEN -1 ELSE 1)
         * HexNumber(SubSeq(line, 21 * k + 16, 21 * k + 20))>> :
        k \in 0..((Len(line) + 1) \div 21 - 1)}

LowerSegments ==
    UNION {SegmentsIn(LowerTable[i]) : i \in 1..Len(LowerTable)}

\* the cased characters that are not case-ignorable (the test str.lower()
\* makes around a capital sigma)
CasedTable ==
    <<"00041-0005A 00061-0007A 000AA-000AA 000B5-000B5 000BA-000BA",
      "000C0-000D6 000D8-000F6 000F8-001BA 001BC-001BF 001C4-00293",
      "00295-002AF 00370-00373 00376-00377 0037B-0037D 0037F-0037F",
      "00386-00386 00388-0038A 0038C-0038C 0038E-003A1 003A3-003F5",
      "003F7-00481 0048A-0052F 00531-00556 00560-00588 010A0-010C5",
      "010C7-010C7 010CD-010CD 010D0-010FA 010FD-010FF 013A0-013F5",
      "013F8-013FD 01C80-01C88 01C90-01CBA 01CBD-01CBF 01D00-01D2B",
      "01D6B-01D77 01D79-01D9A 01E00-01F15 01F18-01F1D 01F20-01F45",
      "01F48-01F4D 01F50-01F57 01F59-01F59 01F5B-01F5B 01F5D-01F5D",
      "01F5F-01F7D 01F80-01FB4 01FB6-01FBC 01FBE-01FBE 01FC2-01FC4",
      "01FC6-01FCC 01FD0-01FD3 01FD6-01FDB 01FE0-01FEC 01FF2-01FF4",
      "01FF6-01FFC 02102-02102 02107-02107 0210A-02113 02115-02115",
      "02119-0211D 02124-02124 02126-02126 02128-02128 0212A-0212D",
      "0212F-02134 02139-02139 0213C-0213F 02145-02149 0214E-0214E",
      "02160-0217F 02183-02184 024B6-024E9 02C00-02C7B 02C7E-02CE4",
      "02CEB-02CEE 02CF2-02CF3 02D00-02D25 02D27-02D27 02D2D-02D2D",
      "0A640-0A66D 0A680-0A69B 0A722-0A76F 0A771-0A787 0A78B-0A78E",
      "0A790-0A7CA 0A7D0-0A7D1 0A7D3-0A7D3 0A7D5-0A7D9 0A7F5-0A7F6",
      "0A7FA-0A7FA 0AB30-0AB5A 0AB60-0AB68 0AB70-0ABBF 0FB00-0FB06",
      "0FB13-0FB17 0FF21-0FF3A 0FF41-0FF5A 10400-1044F 104B0-104D3",
      "104D8-104FB 10570-1057A 1057C-1058A 1058C-10592 10594-10595",
      "10597-105A1 105A3-105B1 105B3-105B9 105BB-105BC 10C80-10CB2",
      "10CC0-10CF2 118A0-118DF 16E40-16E7F 1D400-1D454 1D456-1D49C",
      "1D49E-1D49F 1D4A2-1D4A2 1D4A5-1D4A6 1D4A9-1D4AC 1D4AE-1D4B9",
      "1D4BB-1D4BB 1D4BD-1D4C3 1D4C5-1D505 1D507-1D50A 1D50D-1D514",
      "1D516-1D51C 1D51E-1D539 1D53B-1D53E 1D540-1D544 1D546-1D546",
      "1D54A-1D550 1D552-1D6A5 1D6A8-1D6C0 1D6C2-1D6DA 1D6DC-1D6FA",
      "1D6FC-1D714 1D716-1D734 1D736-1D74E 1D750-1D76E 1D770-1D788",
      "1D78A-1D7A8 1D7AA-1D7C2 1D7C4-1D7CB 1DF00-1DF09 1DF0B-1DF1E",
      "1E900-1E943 1F130-1F149 1F150-1F169 1F170-1F189">>

CasedRanges ==
    UNION {RangesIn(CasedTable[i]) : i \in 1..Len(CasedTable)}

\* the case-ignorable characters
CaseIgnorableTable ==
    <<"00027-00027 0002E-0002E 0003A-0003A 0005E-0005E 00060-00060",
      "000A8-000A8 000AD-000AD 000AF-000AF 000B4-000B4 000B7-000B8",
      "002B0-0036F 00374-00375 0037A-0037A 00384-00385 00387-00387",
      "00483-00489 00559-00559 0055F-0055F 00591-005BD 005BF-005BF",
      "005C1-005C2 005C4-005C5 005C7-005C7 005F4-005F4 00600-00605",
      "00610-0061A 0061C-0061C 00640-00640 0064B-0065F 00670-00670",
      "006D6-006DD 006DF-006E8 006EA-006ED 0070F-0070F 00711-00711",
      "00730-0074A 007A6-007B0 007EB-007F5 007FA-007FA 007FD-007FD",
      "00816-0082D 00859-0085B 00888-00888 00890-00891 00898-0089F",
      "008C9-00902 0093A-0093A 0093C-0093C 00941-00948 0094D-0094D",
      "00951-00957 00962-00963 00971-00971 00981-00981 009BC-009BC",
      "009C1-009C4 009CD-009CD 009E2-009E3 009FE-009FE 00A01-00A02",
      "00A3C-00A3C 00A41-00A42 00A47-00A48 00A4B-00A4D 00A51-00A51",
      "00A70-00A71 00A75-00A75 00A81-00A82 00ABC-00ABC 00AC1-00AC5",
      "00AC7-00AC8 00ACD-00ACD 00AE2-00AE3 00AFA-00AFF 00B01-00B01",
      "00B3C-00B3C 00B3F-00B3F 00B41-00B44 00B4D-00B4D 00B55-00B56",
      "00B62-00B63 00B82-00B82 00BC0-00BC0 00BCD-00BCD 00C00-00C00",
      "00C04-00C04 00C3C-00C3C 00C3E-00C40 00C46-00C48 00C4A-00C4D",
      "00C55-00C56 00C62-00C63 00C81-00C81 00CBC-00CBC 00CBF-00CBF",
      "00CC6-00CC6 00CCC-00CCD 00CE2-00CE3 00D00-00D01 00D3B-00D3C",
      "00D41-00D44 00D4D-00D4D 00D62-00D63 00D81-00D81 00DCA-00DCA",
      "00DD2-00DD4 00DD6-00DD6 00E31-00E31 00E34-00E3A 00E46-00E4E",
      "00EB1-00EB1 00EB4-00EBC 00EC6-00EC6 00EC8-00ECD 00F18-00F19",
      "00F35-00F35 00F37-00F37 00F39-00F39 00F71-00F7E 00F80-00F84",
      "00F86-00F87 00F8D-00F97 00F99-00FBC 00FC6-00FC6 0102D-01030",
      "01032-01037 01039-0103A 0103D-0103E 01058-01059 0105E-01060",
      "01071-01074 01082-01082 01085-01086 0108D-0108D 0109D-0109D",
      "010FC-010FC 0135D-0135F 01712-01714 01732-01733 01752-01753",
      "01772-01773 017B4-017B5 017B7-017BD 017C6-017C6 017C9-017D3",
      "017D7-017D7 017DD-017DD 0180B-0180F 01843-01843 01885-01886",
      "018A9-018A9 01920-01922 01927-01928 01932-01932 01939-0193B",
      "01A17-01A18 01A1B-01A1B 01A56-01A56 01A58-01A5E 01A60-01A60",
      "01A62-01A62 01A65-01A6C 01A73-01A7C 01A7F-01A7F 01AA7-01AA7",
      "01AB0-01ACE 01B00-01B03 01B34-01B34 01B36-01B3A 01B3C-01B3C",
      "01B42-01B42 01B6B-01B73 01B80-01B81 01BA2-01BA5 01BA8-01BA9",
      "01BAB-01BAD 01BE6-01BE6 01BE8-01BE9 01BED-01BED 01BEF-01BF1",
      "01C2C-01C33 01C36-01C37 01C78-01C7D 01CD0-01CD2 01CD4-01CE0",
      "01CE2-01CE8 01CED-01CED 01CF4-01CF4 01CF8-01CF9 01D2C-01D6A",
      "01D78-01D78 01D9B-01DFF 01FBD-01FBD 01FBF-01FC1 01FCD-01FCF",
      "01FDD-01FDF 01FED-01FEF 01FFD-01FFE 0200B-0200F 02018-02019",
      "02024-02024 02027-02027 0202A-0202E 02060-02064 02066-0206F",
      "02071-02071 0207F-0207F 02090-0209C 020D0-020F0 02C7C-02C7D",
      "02CEF-02CF1 02D6F-02D6F 02D7F-02D7F 02DE0-02DFF 02E2F-02E2F",
      "03005-03005 0302A-0302D 03031-03035 0303B-0303B 03099-0309E",
      "030FC-030FE 0A015-0A015 0A4F8-0A4FD 0A60C-0A60C 0A66F-0A672",
      "0A674-0A67D 0A67F-0A67F 0A69C-0A69F 0A6F0-0A6F1 0A700-0A721",
      "0A770-0A770 0A788-0A78A 0A7F2-0A7F4 0A7F8-0A7F9 0A802-0A802",
      "0A806-0A806 0A80B-0A80B 0A825-0A826 0A82C-0A82C 0A8C4-0A8C5",
      "0A8E0-0A8F1 0A8FF-0A8FF 0A926-0A92D 0A947-0A951 0A980-0A982",
      "0A9B3-0A9B3 0A9B6-0A9B9 0A9BC-0A9BD 0A9CF-0A9CF 0A9E5-0A9E6",
      "0AA29-0AA2E 0AA31-0AA32 0AA35-0AA36 0AA43-0AA43 0AA4C-0AA4C",
      "0AA70-0AA70 0AA7C-0AA7C 0AAB0-0AAB0 0AAB2-0AAB4 0AAB7-0AAB8",
      "0AABE-0AABF 0AAC1-0AAC1 0AADD-0AADD 0AAEC-0AAED 0AAF3-0AAF4",
      "0AAF6-0AAF6 0AB5B-0AB5F 0AB69-0AB6B 0ABE5-0ABE5 0ABE8-0ABE8",
      "0ABED-0ABED 0FB1E-0FB1E 0FBB2-0FBC2 0FE00-0FE0F 0FE13-0FE13",
      "0FE20-0FE2F 0FE52-0FE52 0FE55-0FE55 0FEFF-0FEFF 0FF07-0FF07",
      "0FF0E-0FF0E 0FF1A-0FF1A 0FF3E-0FF3E 0FF40-0FF40 0FF70-0FF70",
      "0FF9E-0FF9F 0FFE3-0FFE3 0FFF9-0FFFB 101FD-101FD 102E0-102E0",
      "10376-1037A 10780-10785 10787-107B0 107B2-107BA 10A01-10A03",
      "10A05-10A06 10A0C-10A0F 10A38-10A3A 10A3F-10A3F 10AE5-10AE6",
      "10D24-10D27 10EAB-10EAC 10F46-10F50 10F82-10F85 11001-11001",
      "11038-11046 11070-11070 11073-11074 1107F-11081 110B3-110B6",
      "110B9-110BA 110BD-110BD 110C2-110C2 110CD-110CD 11100-11102",
      "11127-1112B 1112D-11134 11173-11173 11180-11181 111B6-111BE",
      "111C9-111CC 111CF-111CF 1122F-11231 11234-11234 11236-11237",
      "1123E-1123E 112DF-112DF 112E3-112EA 11300-11301 1133B-1133C",
      "11340-11340 11366-1136C 11370-11374 11438-1143F 11442-11444",
      "11446-11446 1145E-1145E 114B3-114B8 114BA-114BA 114BF-114C0",
      "114C2-114C3 115B2-115B5 115BC-115BD 115BF-115C0 115DC-115DD",
      "11633-1163A 1163D-1163D 1163F-11640 116AB-116AB 116AD-116AD",
      "116B0-116B5 116B7-116B7 1171D-1171F 11722-11725 11727-1172B",
      "1182F-11837 11839-1183A 1193B-1193C 1193E-1193E 11943-11943",
      "119D4-119D7 119DA-119DB 119E0-119E0 11A01-11A0A 11A33-11A38",
      "11A3B-11A3E 11A47-11A47 11A51-11A56 11A59-11A5B 11A8A-11A96",
      "11A98-11A99 11C30-11C36 11C38-11C3D 11C3F-11C3F 11C92-11CA7",
      "11CAA-11CB0 11CB2-11CB3 11CB5-11CB6 11D31-11D36 11D3A-11D3A",
      "11D3C-11D3D 11D3F-11D45 11D47-11D47 11D90-11D91 11D95-11D95",
      "11D97-11D97 11EF3-11EF4 13430-13438 16AF0-16AF4 16B30-16B36",
      "16B40-16B43 16F4F-16F4F 16F8F-16F9F 16FE0-16FE1 16FE3-16FE4",
      "1AFF0-1AFF3 1AFF5-1AFFB 1AFFD-1AFFE 1BC9D-1BC9E 1BCA0-1BCA3",
      "1CF00-1CF2D 1CF30-1CF46 1D167-1D169 1D173-1D182 1D185-1D18B",
      "1D1AA-1D1AD 1D242-1D244 1DA00-1DA36 1DA3B-1DA6C 1DA75-1DA75",
      "1DA84-1DA84 1DA9B-1DA9F 1DAA1-1DAAF 1E000-1E006 1E008-1E018",
      "1E01B-1E021 1E023-1E024 1E026-1E02A 1E130-1E13D 1E2AE-1E2AE",
      "1E2EC-1E2EF 1E8D0-1E8D6 1E944-1E94B 1F3FB-1F3FF E0001-E0001",
      "E0020-E007F E0100-E01EF">>

CaseIgnorableRanges ==
    UNION {RangesIn(CaseIgnorableTable[i]) : i \in 1..Len(CaseIgnorableTable)}

RECURSIVE Join(_)
Join(s) == IF s = <<>> THEN "" ELSE Head(s) \o Join(Tail(s))

RECURSIVE Flatten(_)
Flatten(ss) == IF ss = <<>> THEN <<>> ELSE Head(ss) \o Flatten(Tail(ss))

Covers(g, n) == g[1] <= n /\ n <= g[2] /\ (n - g[1]) % g[3] = 0

\* the code point str.lower() gives for a code point it maps to one
LowerCode(n) ==
    IF \E g \in LowerSegments : Covers(g, n)
    THEN n + (CHOOSE g \in LowerSegments : Covers(g, n))[4]
    ELSE n

\* str.lower() of one character: one character, or two for U+0130
LowerChar(c) ==
    IF c = "U+0130" THEN <<"i", "U+0307">>
    ELSE <<Char(LowerCode(CodePoint(c)))>>

IsCased(c) == InRanges(CodePoint(c), CasedRanges)

IsCaseIgnorable(c) == InRanges(CodePoint(c), CaseIgnorableRanges)

\* whether the capital sigma at index k of s ends a word: a cased character
\* comes before it and none after it, case-ignorable characters skipped
FinalSigma(s, k) ==
    LET before == {j \in 1..(k - 1) : ~IsCaseIgnorable(s[j])}
        after == {j \in (k + 1)..Len(s) : ~IsCaseIgnorable(s[j])}
    IN  /\ before # {}
        /\ IsCased(s[CHOOSE j \in before : \A m \in before : m <= j])
        /\ \/ after = {}
           \/ ~IsCased(s[CHOOSE j \in after : \A m \in after : j <= m])

\* str.lower(): a capital sigma becomes the final sigma at the end of a word
Lower(s) ==
    Flatten([k \in 1..Len(s) |->
                IF s[k] = "U+03A3"
                THEN IF FinalSigma(s, k) THEN <<"U+03C2">> ELSE <<"U+03C3">>
                ELSE LowerChar(s[k])])

\* str.split('.')[-1]
RECURSIVE LastPart(_)
LastPart(p) ==
    IF p = <<>> THEN <<>>
    ELSE IF p[Len(p)] = "." THEN <<>>
    ELSE Append(LastPart(SubSeq(p, 1, Len(p) - 1)), p[Len(p)])

\* str.replace(old, new), old not empty
RECURSIVE Replace(_, _, _)
Replace(s, old, new) ==
    IF Len(s) < Len(old) THEN s
    ELSE IF SubSeq(s, 1, Len(old)) = old
    THEN new \o Replace(SubSeq(s, Len(old) + 1, Len(s)), old, new)
    ELSE <<Head(s)>> \o Replace(Tail(s), old, new)

IsDigit(c) == c \in Digits

IsAsciiDigit(c) == c \in AsciiDigits

IsPatternLetter(c) == c \in PatternLetters

\* \w of the regular expressions: the alphanumeric characters of Unicode,
\* every \d among them, and the underscore; a character written as its code
\* point is looked up in the ranges beyond ASCII
IsWord(c) ==
    IF Len(c) = 1 THEN c \in AsciiWordChars
    ELSE InRanges(HexNumber(SubSeq(c, 3, Len(c))), WordRangesOther)

\* the characters str.strip() removes
IsSpace(c) == c \in WhiteSpace

RECURSIVE LStrip(_)
LStrip(s) ==
    IF s = <<>> THEN s
    ELSE IF IsSpace(Head(s)) THEN LStrip(Tail(s)) ELSE s

RECURSIVE RStrip(_)
RStrip(s) ==
    IF s = <<>> THEN s
    ELSE IF IsSpace(s[Len(s)]) THEN RStrip(SubSeq(s, 1, Len(s) - 1)) ELSE s

\* str.strip()
Strip(s) == RStrip(LStrip(s))

(***************************************************************************)
(* Python values held by a cell.  An int is its sign and decimal digits, a *)
(* float is NaN or an integral value, given by the digits of the shortest  *)
(* decimal literal that reads back as it (at most 17 of them significant), *)
(* an "object" is a value whose __str__ raises.                            *)
(***************************************************************************)
PyStrVal(s) == [t |-> "str", neg |-> FALSE, d |-> <<>>, s |-> s]

PyInt(neg, d) == [t |-> "int", neg |-> neg, d |-> d, s |-> <<>>]

PyFloat(neg, d) == [t |-> "float", neg |-> neg, d |-> d, s |-> <<>>]

PyNaN == [t |-> "nan", neg |-> FALSE, d |-> <<>>, s |-> <<>>]

PyNone == [t |-> "NoneType", neg |-> FALSE, d |-> <<>>, s |-> <<>>]

PyUnprintable == [t |-> "object", neg |-> FALSE, d |-> <<>>, s |-> <<>>]

DigitChar(n) == <<"0", "1", "2", "3", "4", "5", "6", "7", "8", "9">>[n + 1]

RECURSIVE DigitChars(_)
DigitChars(d) ==
    IF d = <<>> THEN <<>> ELSE <<DigitChar(Head(d))>> \o DigitChars(Tail(d))

\* the decimal digits of a natural number
RECURSIVE NatChars(_)
NatChars(n) ==
    IF n < 10 THEN <<DigitChar(n)>>
    ELSE NatChars(n \div 10) \o <<DigitChar(n % 10)>>

RECURSIVE DropTrailingZeros(_)
DropTrailingZeros(d) ==
    IF d # <<>> /\ d[Len(d)] = 0
    THEN DropTrailingZeros(SubSeq(d, 1, Len(d) - 1))
    ELSE d

\* the size from which str() of a float is in exponent notation: 1e16 is
\* the first value of 17 digits
ExponentDigits == 17

\* str() of an integral float of digits d: "123.0" below 1e16, from there
\* on the exponent notation, "1e+16", "1.2345678901234568e+17"
FloatChars(d) ==
    IF Len(d) < ExponentDigits THEN DigitChars(d) \o <<".", "0">>
    ELSE LET frac == DropTrailingZeros(Tail(d))
         IN  <<DigitChar(Head(d))>>
             \o (IF frac = <<>> THEN <<>> ELSE <<".">> \o DigitChars(frac))
             \o <<"e", "+">> \o NatChars(Len(d) - 1)

\* the longest int str() converts: the interpreter's default limit, from
\* which on it raises ValueError
MaxStrDigits == 4300

\* whether str(v) returns (FALSE: it raises)
CanStr(v) ==
    /\ v.t # "object"
    /\ v.t = "int" => Len(v.d) <= MaxStrDigits

\* str(v)
PyStr(v) ==
    CASE v.t = "str" -> v.s
      [] v.t = "int" -> (IF v.neg THEN <<"-">> ELSE <<>>) \o DigitChars(v.d)
      [] v.t = "float" ->
            (IF v.neg THEN <<"-">> ELSE <<>>) \o FloatChars(v.d)
      [] v.t = "nan" -> <<"n", "a", "n">>
      [] v.t = "NoneType" -> <<"N", "o", "n", "e">>

(***************************************************************************)
(* The custom recognizers: one regular expression each.                    *)
(***************************************************************************)
\* \b before the character at index i (1-based; i = Len(s) + 1 is the end):
\* exactly one of the characters at i - 1 and at i is a word character
BoundaryAt(s, i) ==
    Cardinality({k \in {i - 1, i} :
                    k >= 1 /\ k <= Len(s) /\ IsWord(s[k])}) = 1

AllDigits(s, a, b) == a >= 1 /\ b <= Len(s) /\ \A k \in a..b : IsDigit(s[k])

AllAsciiDigits(s, a, b) ==
    a >= 1 /\ b <= Len(s) /\ \A k \in a..b : IsAsciiDigit(s[k])

AllPatternLetters(s, a, b) ==
    a >= 1 /\ b <= Len(s) /\ \A k \in a..b : IsPatternLetter(s[k])

CharAt(s, i, c) == i >= 1 /\ i <= Len(s) /\ s[i] = c

\* the number of digits from index i on, at most 4: the lengths n for which
\* the n characters from i on are all digits
RunLen(s, i) ==
    Cardinality({n \in 1..4 : AllDigits(s, i, i + n - 1)})

\* r"\b\d{4}-\d{4}-\d{4}\b": the index of the last character of the match
\* that starts at i, 0 when there is none
AadhaarEnd(s, i) ==
    IF /\ BoundaryAt(s, i)
       /\ AllDigits(s, i, i + 3) /\ CharAt(s, i + 4, "-")
       /\ AllDigits(s, i + 5, i + 8) /\ CharAt(s, i + 9, "-")
       /\ AllDigits(s, i + 10, i + 13)
       /\ BoundaryAt(s, i + 14)
    THEN i + 13 ELSE 0

\* r"\b[A-Z]{5}[0-9]{4}[A-Z]\b"
PanEnd(s, i) ==
    IF /\ BoundaryAt(s, i)
       /\ AllPatternLetters(s, i, i + 4) /\ AllAsciiDigits(s, i + 5, i + 8)
       /\ AllPatternLetters(s, i + 9, i + 9)
       /\ BoundaryAt(s, i + 10)
    THEN i + 9 ELSE 0

\* r"\b(?:\d{1,3}\.){3}\d{1,3}\b": each group is a whole run of 1 to 3 digits
IpEnd(s, i) ==
    LET n1 == RunLen(s, i)
        i2 == i + n1 + 1
        n2 == RunLen(s, i2)
        i3 == i2 + n2 + 1
        n3 == RunLen(s, i3)
        i4 == i3 + n3 + 1
        n4 == RunLen(s, i4)
    IN  IF /\ BoundaryAt(s, i)
           /\ n1 \in 1..3 /\ CharAt(s, i + n1, ".")
           /\ n2 \in 1..3 /\ CharAt(s, i2 + n2, ".")
           /\ n3 \in 1..3 /\ CharAt(s, i3 + n3, ".")
           /\ n4 \in 1..3 /\ BoundaryAt(s, i4 + n4)
        THEN i4 + n4 - 1 ELSE 0

\* r"\b\d{lo,hi}\b"
DigitRunEnd(s, i, lo, hi) ==
    LET ns == {n \in lo..hi :
                  BoundaryAt(s, i) /\ AllDigits(s, i, i + n - 1)
                  /\ BoundaryAt(s, i + n)}
    IN  IF ns = {} THEN 0
        ELSE i + (CHOOSE n \in ns : \A m \in ns : m <= n) - 1

\* r"\b\d{9,18}\b"
BankEnd(s, i) == DigitRunEnd(s, i, 9, 18)

\* r"\b\d{10}\b"
LocalPhoneEnd(s, i) == DigitRunEnd(s, i, 10, 10)

MatchEnd(name, s, i) ==
    CASE name = "Aadhaar Pattern" -> AadhaarEnd(s, i)
      [] name = "PAN Pattern" -> PanEnd(s, i)
      [] name = "IP Pattern" -> IpEnd(s, i)
      [] name = "Bank Pattern" -> BankEnd(s, i)
      [] name = "Local 10-digit" -> LocalPhoneEnd(s, i)

\* re.finditer: the matches from left to right, none overlapping another
RECURSIVE FindAll(_, _, _)
FindAll(name, s, i) ==
    IF i > Len(s) THEN {}
    ELSE LET e == MatchEnd(name, s, i)
         IN  IF e > 0
             THEN {[start |-> i - 1, end |-> e]} \cup FindAll(name, s, e + 1)
             ELSE FindAll(name, s, i + 1)

aadhar_recognizer ==
    [supported_entity |-> "AADHAAR", pattern |-> "Aadhaar Pattern", score |-> 99]

pan_recognizer ==
    [supported_entity |-> "PAN", pattern |-> "PAN Pattern", score |-> 95]

ip_recognizer ==
    [supported_entity |-> "IP_ADDRESS", pattern |-> "IP Pattern", score |-> 90]

bank_recognizer ==
    [supported_entity |-> "BANK_ACCOUNT", pattern |-> "Bank Pattern", score |-> 80]

local_phone_recognizer ==
    [supported_entity |-> "PHONE_NUMBER", pattern |-> "Local 10-digit", score |-> 100]

\* analyzer.registry after the five add_recognizer calls
registry ==
    {aadhar_recognizer, pan_recognizer, ip_recognizer, bank_recognizer,
     local_phone_recognizer}


(***************************************************************************)
(* State.                                                                  *)
(***************************************************************************)
VARIABLES
    tieBreak,        \* the detection engine's rule for results on one span
    ncalls,          \* calls of _anonymize_text made by the caller so far
    last,            \* the latest call of _anonymize_text: argument, result, trace
    df,              \* the table the caller passed / the table loaded from the file
    result_df,       \* the table anonymize_dataframe returned
    pc,              \* where anonymize_file is
    input_path,
    output_path,
    ext,
    all_text,        \* the text extracted from a pdf
    anonymized_text, \* the redacted document text
    returned,        \* what anonymize_file returned
    written,         \* the files written so far
    error,           \* the exception that ended the run
    stages,          \* the steps of anonymize_file run so far, in order
    loaded,          \* the table as read from the file / as the caller built it
    redactor_args    \* the values passed to _anonymize_text during the run

vars ==
    <<tieBreak, ncalls, last, df, result_df, pc, input_path,
      output_path, ext, all_text, anonymized_text, returned, written, error,
      stages, loaded, redactor_args>>

(***************************************************************************)
(* Detection: analyzer.analyze(text, language, entities).                  *)
(***************************************************************************)
\* the entities argument of analyzer.analyze
entities ==
    <<"EMAIL_ADDRESS", "PHONE_NUMBER", "AADHAAR", "PERSON", "PAN",
      "IP_ADDRESS", "BANK_ACCOUNT", "CREDIT_CARD", "LOCATION", "DATE_TIME">>

RequestedEntities == {entities[i] : i \in 1..Len(entities)}

EntityIndex(e) == CHOOSE i \in 1..Len(entities) : entities[i] = e

\* A built-in recognizer of the engine, for e-mail addresses: a run of
\* non-blank characters x@y.z
BuiltinEmailEnd(s, i) ==
    LET ends == {e \in i..Len(s) :
                    /\ \A k \in i..e : ~IsSpace(s[k])
                    /\ e = Len(s) \/ IsSpace(s[e + 1])}
        e == IF ends = {} THEN 0 ELSE CHOOSE x \in ends : TRUE
        ats == {k \in i..e : s[k] = "@"}
        at == IF ats = {} THEN 0 ELSE CHOOSE k \in ats : TRUE
    IN  IF /\ i >= 1 /\ i <= Len(s)
           /\ i = 1 \/ IsSpace(s[i - 1])
           /\ e > 0 /\ Cardinality(ats) = 1
           /\ at > i /\ at < e /\ IsWord(s[i]) /\ IsWord(s[e])
           /\ \E k \in (at + 2)..(e - 1) : s[k] = "." /\ IsWord(s[k - 1])
        THEN e ELSE 0

BuiltinResults(text) ==
    {[entity_type |-> "EMAIL_ADDRESS", start |-> i - 1,
      end |-> BuiltinEmailEnd(text, i), score |-> 100] :
        i \in {j \in 1..Len(text) : BuiltinEmailEnd(text, j) > 0}}

PatternResults(text) ==
    UNION {{[entity_type |-> r.supported_entity, start |-> sp.start,
             end |-> sp.end, score |-> r.score] :
               sp \in FindAll(r.pattern, text, 1)} : r \in registry}

\* analyzer.analyze: the results of every recognizer for a requested entity
analyze(text) ==
    {r \in PatternResults(text) \cup BuiltinResults(text) :
        r.entity_type \in RequestedEntities}

(***************************************************************************)
(* Redaction: anonymizer.anonymize(text, analyzer_results, operators).     *)
(***************************************************************************)
\* OperatorConfig("hash", {"hash_type": "sha256", "salt": "xyz123"})
HashOperator ==
    [name |-> "hash", hash_type |-> "sha256", salt |-> "xyz123", new_value |-> ""]

\* OperatorConfig("replace", {"new_value": "[REDACTED]"})
ReplaceOperator ==
    [name |-> "replace", hash_type |-> "", salt |-> "", new_value |-> "[REDACTED]"]

\* no operator: the span's text stays
KeepOperator == [name |-> "keep", hash_type |-> "", salt |-> "", new_value |-> ""]

\* the operators argument without its PAN and DEFAULT entries
operators_incomplete ==
    [EMAIL_ADDRESS |-> HashOperator, PHONE_NUMBER |-> HashOperator,
     AADHAAR |-> HashOperator, PERSON |-> HashOperator,
     IP_ADDRESS |-> HashOperator, BANK_ACCOUNT |-> HashOperator,
     CREDIT_CARD |-> HashOperator, DATE_TIME |-> HashOperator,
     LOCATION |-> HashOperator]

\* the operators argument of anonymizer.anonymize
operators ==
    [EMAIL_ADDRESS |-> HashOperator, PHONE_NUMBER |-> HashOperator,
     AADHAAR |-> HashOperator, PERSON |-> HashOperator,
     PAN |-> HashOperator, IP_ADDRESS |-> HashOperator,
     BANK_ACCOUNT |-> HashOperator, CREDIT_CARD |-> HashOperator,
     DATE_TIME |-> HashOperator, LOCATION |-> HashOperator,
     DEFAULT |-> ReplaceOperator]

\* the operator of an entity type: its own, else DEFAULT, else none
OperatorFor(ops, entity_type) ==
    IF entity_type \in DOMAIN ops THEN ops[entity_type]
    ELSE IF "DEFAULT" \in DOMAIN ops THEN ops["DEFAULT"]
    ELSE KeepOperator

\* what an operator puts in the place of a span's text
ApplyOperator(op, value) ==
    CASE op.name = "hash" ->
            <<op.hash_type \o "(" \o op.salt \o "+" \o Join(value) \o ")">>
      [] op.name = "replace" -> <<op.new_value>>
      [] op.name = "keep" -> value

Contains(a, b) == a.start <= b.start /\ b.end <= a.end

SameSpan(a, b) == a.start = b.start /\ a.end = b.end

\* which of two results on one span the engine keeps
Prefer(a, b) ==
    IF tieBreak = "score" /\ a.score # b.score THEN a.score > b.score
    ELSE EntityIndex(a.entity_type) < EntityIndex(b.entity_type)

\* the results left once a result inside another, or beaten on its own
\* span, is dropped
Resolve(results) ==
    {r \in results :
        \A o \in results \ {r} :
            IF SameSpan(o, r) THEN Prefer(r, o) ELSE ~Contains(o, r)}

RECURSIVE Pieces(_, _, _, _)
Pieces(text, spans, ops, pos) ==
    IF pos > Len(text) THEN <<>>
    ELSE LET here == {r \in spans : r.start + 1 = pos}
         IN  IF here = {}
             THEN <<[orig |-> <<text[pos]>>, repl |-> <<text[pos]>>,
                     entity_type |-> "", operator |-> "",
                     start |-> pos - 1, end |-> pos]>>
                  \o Pieces(text, spans, ops, pos + 1)
             ELSE LET r == CHOOSE x \in here : TRUE
                      value == SubSeq(text, r.start + 1, r.end)
                      op == OperatorFor(ops, r.entity_type)
                  IN  <<[orig |-> value, repl |-> ApplyOperator(op, value),
                         entity_type |-> r.entity_type, operator |-> op.name,
                         start |-> r.start, end |-> r.end]>>
                      \o Pieces(text, spans, ops, r.end + 1)

\* anonymizer.anonymize: the text cut into pieces, a detected span replaced
\* by what its operator yields, every other character kept
anonymize(text, results, ops) == Pieces(text, Resolve(results), ops, 1)

PiecesText(pieces) == Flatten([k \in 1..Len(pieces) |-> pieces[k].repl])

(***************************************************************************)
(* _anonymize_text                                                         *)
(***************************************************************************)
NoTrace(v) ==
    [arg |-> v, ret |-> v, analyzed |-> FALSE, text |-> <<>>, results |-> {},
     pieces |-> <<>>]

\* one call of _anonymize_text: its result and what it did on the way
RedactCall(v) ==
    IF ~CanStr(v) THEN NoTrace(v)
    ELSE LET text == Strip(PyStr(v))
         IN  IF text = <<>>
             THEN [NoTrace(v) EXCEPT !.ret = PyStrVal(text)]
             ELSE LET results == analyze(text)
                      pieces == IF results # {}
                                THEN anonymize(text, results, operators)
                                ELSE <<>>
                  IN  [arg |-> v,
                       ret |-> PyStrVal(IF results # {} THEN PiecesText(pieces)
                                        ELSE text),
                       analyzed |-> TRUE, text |-> text, results |-> results,
                       pieces |-> pieces]

anonymize_text(v) == RedactCall(v).ret

(***************************************************************************)
(* Inputs: texts and cell values.                                          *)
(***************************************************************************)
TxtEmpty == <<>>

TxtBlank == <<" ", " ">>

TxtPlain == <<"a", "b">>

TxtPadded == <<" ", "a", "b", " ">>

TxtAadhaar == <<"1", "2", "3", "4", "-", "5", "6", "7", "8", "-", "9", "0", "1", "2">>

TxtAadhaarSpaced == <<"1", "2", "3", "4", " ", "5", "6", "7", "8", " ", "9", "0", "1", "2">>

TxtTwelveDigits == <<"1", "2", "3", "4", "5", "6", "7", "8", "9", "0", "1", "2">>

TxtShortId == <<"1", "2", "-", "3", "4">>

TxtPhone == <<"9", "8", "7", "6", "5", "4", "3", "2", "1", "0">>

TxtPhonePadded == <<" ", "9", "8", "7", "6", "5", "4", "3", "2", "1", "0">>

TxtCallPhone == <<"c", "a", "l", "l", " ", "9", "8", "7", "6", "5", "4", "3", "2", "1", "0">>

TxtEmail == <<"a", "@", "b", ".", "c", "o">>

TxtPan == <<"A", "B", "C", "D", "E", "1", "2", "3", "4", "F">>

TxtIp == <<"1", "0", ".", "0", ".", "0", ".", "1">>

\* "\r\n"
TxtCrLf == <<"\r", "\n">>

\* "ab\r\n"
TxtPlainCrLf == <<"a", "b", "\r", "\n">>

\* an Aadhaar number in Devanagari digits, 1234-5678-9012
TxtAadhaarDevanagari ==
    <<"U+0967", "U+0968", "U+0969", "U+096A", "-",
      "U+096B", "U+096C", "U+096D", "U+096E", "-",
      "U+096F", "U+0966", "U+0967", "U+0968">>

\* a phone number straight after a Devanagari letter: no \b before it
TxtLetterPhone ==
    <<"U+092E", "9", "8", "7", "6", "5", "4", "3", "2", "1", "0">>

\* an int str() does not convert
IntBeyondLimit == PyInt(FALSE, [i \in 1..(MaxStrDigits + 1) |-> 1])

TieBreaks == {"score", "order"}

\* the values _anonymize_text is called with
TextInputs ==
    {PyStrVal(TxtEmpty), PyStrVal(TxtBlank), PyStrVal(TxtPlain),
     PyStrVal(TxtPadded), PyStrVal(TxtAadhaar), PyStrVal(TxtTwelveDigits),
     PyStrVal(TxtPhone), PyStrVal(TxtPhonePadded), PyStrVal(TxtCallPhone),
     PyStrVal(TxtEmail), PyStrVal(TxtPan), PyStrVal(TxtIp),
     PyStrVal(TxtCrLf), PyStrVal(TxtPlainCrLf),
     PyStrVal(TxtAadhaarDevanagari), PyStrVal(TxtLetterPhone),
     PyNone, PyNaN, PyInt(FALSE, <<4, 2>>),
     PyInt(FALSE, <<9, 8, 7, 6, 5, 4, 3, 2, 1, 0>>), IntBeyondLimit,
     PyUnprintable}

NoTable == <<>>

NoPath == <<>>

Nothing == [kind |-> "nothing", table |-> <<>>, text |-> <<>>]

\* the state of the variables of a run of anonymize_file that has not begun
FileIdle ==
    /\ pc = "idle" /\ input_path = NoPath /\ output_path = NoPath
    /\ ext = NoPath /\ all_text = <<>> /\ anonymized_text = <<>>
    /\ returned = Nothing
    /\ written = {} /\ error = "none" /\ stages = <<>>
    /\ loaded = NoTable /\ redactor_args = {}

FileVars ==
    <<pc, input_path, output_path, ext, all_text, anonymized_text, returned,
      written, error, stages, loaded, redactor_args>>

(***************************************************************************)
(* The text redactor called directly, MaxCalls times in a row.             *)
(***************************************************************************)
InitText ==
    /\ tieBreak \in TieBreaks
    /\ ncalls = 0 /\ last = NoTrace(PyNone)
    /\ df = NoTable /\ result_df = NoTable
    /\ FileIdle

CallAnonymizeText ==
    /\ pc = "idle"
    /\ ncalls < MaxCalls
    /\ \E v \in TextInputs : last' = RedactCall(v)
    /\ ncalls' = ncalls + 1
    /\ UNCHANGED <<tieBreak, df, result_df>>
    /\ UNCHANGED FileVars

\* a call in which analyzer.analyze raises: the exception leaves
\* _anonymize_text, nothing is returned
AnonymizeTextRaises ==
    /\ pc = "idle"
    /\ ncalls < MaxCalls
    /\ \E v \in TextInputs :
          /\ RedactCall(v).analyzed
          /\ redactor_args' = {[col |-> 0, row |-> 0, arg |-> v]}
    /\ ncalls' = ncalls + 1
    /\ error' = "DetectionFailure"
    /\ pc' = "aborted"
    /\ UNCHANGED <<tieBreak, last, df, result_df, input_path,
                   output_path, ext, all_text, anonymized_text, returned,
                   written, stages, loaded>>

NextText ==
    \/ CallAnonymizeText
    \/ AnonymizeTextRaises

SpecText == InitText /\ [][NextText]_vars

(***************************************************************************)
(* Tables: a sequence of columns, each with a name, a dtype and its cells. *)
(* A text column has dtype "object".                                       *)
(***************************************************************************)
Column(name, dtype, cells) == [name |-> name, dtype |-> dtype, cells |-> cells]

NRows(t) == IF t = <<>> THEN 0 ELSE Len(t[1].cells)

ColumnNames(t) == [k \in 1..Len(t) |-> t[k].name]

\* Series.apply(_anonymize_text) on a column
ApplyRedactor(c) ==
    [c EXCEPT !.cells = [i \in 1..Len(c.cells) |-> anonymize_text(c.cells[i])]]

\* a dispatch that takes every column for a text column
IsTextColumnAlways(c) == c.dtype = c.dtype

\* df[col].dtype == object
IsTextColumn(c) == c.dtype = "object"

\* the loop body of anonymize_dataframe
RedactColumn(c) == IF IsTextColumn(c) THEN ApplyRedactor(c) ELSE c

\* anonymize_dataframe: the table it returns
anonymize_dataframe(t) == [k \in 1..Len(t) |-> RedactColumn(t[k])]

\* the caller's table after a call that works on the table itself
CallerTableInPlace(t) == anonymize_dataframe(t)

\* the caller's table after the call: df.copy() leaves it alone
CallerTable(t) == t

\* the cells anonymize_dataframe passes to _anonymize_text
RedactorArgs(t) ==
    {[col |-> k, row |-> i, arg |-> t[k].cells[i]] :
        k \in {j \in 1..Len(t) : IsTextColumn(t[j])}, i \in 1..NRows(t)}

\* the cells passed to _anonymize_text up to and including call f: the
\* columns are taken left to right, the rows of a column top to bottom
CallsUpTo(t, f) ==
    {a \in RedactorArgs(t) :
        a.col < f.col \/ (a.col = f.col /\ a.row <= f.row)}

(***************************************************************************)
(* Input tables.                                                           *)
(***************************************************************************)
AadhaarInt == PyInt(FALSE, <<1, 2, 3, 4, 5, 6, 7, 8, 9, 0, 1, 2>>)

AadhaarFloat == PyFloat(FALSE, <<1, 2, 3, 4, 5, 6, 7, 8, 9, 0, 1, 2>>)

\* the float 1e16
AadhaarLargeFloat ==
    PyFloat(FALSE, <<1, 0, 0, 0, 0, 0, 0, 0, 0, 0, 0, 0, 0, 0, 0, 0, 0>>)

\* the values a column of a loaded file holds
CellDomain(name, dtype) ==
    CASE name = "Aadhaar" /\ dtype = "object" ->
            {PyStrVal(TxtAadhaarSpaced), PyStrVal(TxtShortId),
             PyStrVal(TxtAadhaarDevanagari), PyNaN}
      [] name = "Aadhaar" /\ dtype = "int64" ->
            {AadhaarInt, PyInt(FALSE, <<1, 2, 3, 4, 5>>)}
      [] name = "Aadhaar" /\ dtype = "float64" ->
            {AadhaarFloat, AadhaarLargeFloat, PyNaN}
      [] name = "Name" -> {PyStrVal(TxtPadded), PyStrVal(TxtEmail)}
      [] name = "Phone" ->
            {PyInt(FALSE, <<9, 8, 7, 6, 5, 4, 3, 2, 1, 0>>), PyInt(FALSE, <<4, 2>>)}
      [] name = "Score" -> {PyFloat(FALSE, <<1>>), PyNaN}
      [] name = "Mixed" ->
            {PyNone, PyUnprintable, PyInt(FALSE, <<4, 2>>), PyStrVal(TxtBlank),
             PyStrVal(TxtPhonePadded)}

ColumnsOf(c, n) ==
    {Column(c[1], c[2], cells) : cells \in [1..n -> CellDomain(c[1], c[2])]}

\* the tables of a schema of one or two columns, with n rows
TablesOf(schema, n) ==
    IF Len(schema) = 1
    THEN {<<a>> : a \in ColumnsOf(schema[1], n)}
    ELSE {<<a, b>> : a \in ColumnsOf(schema[1], n), b \in ColumnsOf(schema[2], n)}

\* what read_csv / read_excel infer for the files of the model
FileSchemas ==
    {<<<<"Aadhaar", "object">>, <<"Name", "object">>>>,
     <<<<"Aadhaar", "int64">>, <<"Phone", "int64">>>>,
     <<<<"Score", "float64">>, <<"Aadhaar", "float64">>>>,
     <<<<"Name", "object">>, <<"Phone", "int64">>>>}

FileTables == UNION {TablesOf(sc, n) : sc \in FileSchemas, n \in 0..MaxRows}

\* tables a caller of anonymize_dataframe builds
FrameSchemas ==
    FileSchemas \cup {<<<<"Mixed", "object">>, <<"Score", "float64">>>>}

FrameTables == UNION {TablesOf(sc, n) : sc \in FrameSchemas, n \in 0..MaxRows}

(***************************************************************************)
(* anonymize_dataframe called directly on a caller's table.                *)
(***************************************************************************)
InitFrame ==
    /\ tieBreak \in TieBreaks
    /\ ncalls = 0 /\ last = NoTrace(PyNone)
    /\ df \in FrameTables /\ result_df = NoTable
    /\ pc = "idle" /\ input_path = NoPath /\ output_path = NoPath
    /\ ext = NoPath /\ all_text = <<>> /\ anonymized_text = <<>>
    /\ returned = Nothing
    /\ written = {} /\ error = "none" /\ stages = <<>>
    /\ loaded = df /\ redactor_args = {}

CallAnonymizeDataframe ==
    /\ pc = "idle"
    /\ result_df' = anonymize_dataframe(df)
    /\ df' = CallerTable(df)
    /\ redactor_args' = RedactorArgs(df)
    /\ pc' = "returned"
    /\ UNCHANGED <<tieBreak, ncalls, last, input_path, output_path,
                   ext, all_text, anonymized_text, returned, written, error,
                   stages, loaded>>

\* analyzer.analyze raises on the call for some cell f: the exception
\* leaves anonymize_dataframe, the caller gets no table
AnonymizeDataframeRaises ==
    /\ pc = "idle"
    /\ \E f \in RedactorArgs(df) :
          /\ RedactCall(f.arg).analyzed
          /\ redactor_args' = CallsUpTo(df, f)
    /\ df' = CallerTable(df)
    /\ error' = "DetectionFailure"
    /\ pc' = "aborted"
    /\ UNCHANGED <<tieBreak, ncalls, last, result_df, input_path,
                   output_path, ext, all_text, anonymized_text, returned,
                   written, stages, loaded>>

NextFrame ==
    \/ CallAnonymizeDataframe
    \/ AnonymizeDataframeRaises

SpecFrame == InitFrame /\ [][NextFrame]_vars

(***************************************************************************)
(* anonymize_file                                                          *)
(***************************************************************************)
PathCsv == <<"a", ".", "c", "s", "v">>

PathUpperXlsx == <<"b", ".", "X", "L", "S", "X">>

PathXls == <<"c", ".", "x", "l", "s">>

PathPdf == <<"d", ".", "p", "d", "f">>

PathTxt == <<"e", ".", "t", "x", "t">>

PathCsvBak == <<"f", ".", "c", "s", "v", ".", "b", "a", "k">>

PathNoDot == <<"n", "o", "t", "e", "s">>

PathDotDir == <<"v", ".", "p", "d", "f", "/", "g">>

\* "h.CS\u0130": lower() makes two characters of the last one
PathDottedI == <<"h", ".", "C", "S", "U+0130">>

OutCsv == <<"o", ".", "c", "s", "v">>

OutPdf == <<"o", ".", "p", "d", "f">>

InputPaths ==
    {PathCsv, PathUpperXlsx, PathXls, PathPdf, PathTxt, PathCsvBak, PathNoDot,
     PathDotDir, PathDottedI}

\* NoPath: no --output was given (None)
OutXlsx == <<"o", ".", "x", "l", "s", "x">>

OutputPaths == {NoPath, OutCsv, OutPdf, OutXlsx}

ExtCsv == <<"c", "s", "v">>

ExtXls == <<"x", "l", "s">>

ExtXlsx == <<"x", "l", "s", "x">>

ExtPdf == <<"p", "d", "f">>

\* an extension taken from the first dot on: input_path.split('.')[1]
ExtensionOfSecondPart(path) ==
    LET dots == {k \in 1..Len(path) : path[k] = "."}
        first == IF dots = {} THEN 0 ELSE CHOOSE k \in dots : \A j \in dots : k <= j
        rest == SubSeq(path, first + 1, Len(path))
        more == {k \in 1..Len(rest) : rest[k] = "."}
        stop == IF more = {} THEN Len(rest) + 1
                ELSE CHOOSE k \in more : \A j \in more : k <= j
    IN  Lower(SubSeq(rest, 1, stop - 1))

\* input_path.split('.')[-1].lower()
ExtensionOf(path) == Lower(LastPart(path))

\* the pages pdfplumber yields: extract_text() gives a text or None
\* a text that ends in a lone surrogate, which utf-8 cannot encode
TxtSurrogate == <<"a", "U+D800">>

PdfDocs ==
    {<<>>, <<PyStrVal(TxtPlain)>>, <<PyStrVal(TxtCallPhone), PyNone>>,
     <<PyNone, PyStrVal(TxtEmail)>>, <<PyStrVal(TxtBlank)>>,
     <<PyStrVal(TxtPadded), PyStrVal(TxtAadhaar)>>,
     <<PyStrVal(TxtSurrogate)>>}

\* page.extract_text() or ''
PageText(page) == IF page.t = "str" THEN page.s ELSE <<>>

\* "\n".join(...)
RECURSIVE JoinLines(_)
JoinLines(pages) ==
    IF pages = <<>> THEN <<>>
    ELSE IF Len(pages) = 1 THEN PageText(pages[1])
    ELSE PageText(pages[1]) \o <<"\n">> \o JoinLines(Tail(pages))

\* the digit count of a canonical Aadhaar number
AadhaarLength == 12

HasAadhaar(t) == \E k \in 1..Len(t) : t[k].name = "Aadhaar"

\* .str.replace(r'\D', '', regex=True)
StripNonDigits(s) == SelectSeq(s, IsDigit)

\* a dashed form that leaves the last two groups together
FormatAadhaarTwoGroups(x) ==
    IF Len(x) = AadhaarLength
    THEN SubSeq(x, 1, 4) \o <<"-">> \o SubSeq(x, 5, Len(x))
    ELSE x

\* lambda x: f"{x[:4]}-{x[4:8]}-{x[8:]}" if len(x) == 12 else x
FormatAadhaar(x) ==
    IF Len(x) = AadhaarLength
    THEN SubSeq(x, 1, 4) \o <<"-">> \o SubSeq(x, 5, 8) \o <<"-">>
         \o SubSeq(x, 9, Len(x))
    ELSE x

NormalizeCell(v) == PyStrVal(FormatAadhaar(StripNonDigits(PyStr(v))))

\* a normalization that keeps the dtype the column was loaded with
NormalizeColumnKeepDtype(c) ==
    [c EXCEPT !.cells = [i \in 1..Len(c.cells) |-> NormalizeCell(c.cells[i])]]

\* df['Aadhaar'] after lines 170-171: astype(str) makes it a text column
NormalizeColumn(c) ==
    [c EXCEPT !.dtype = "object",
              !.cells = [i \in 1..Len(c.cells) |-> NormalizeCell(c.cells[i])]]

NormalizeTable(t) ==
    [k \in 1..Len(t) |->
        IF t[k].name = "Aadhaar" THEN NormalizeColumn(t[k]) ELSE t[k]]

\* a file on disk: whole when the write ran to its end, otherwise cut short
\* with table or text holding what reached the file
FileRecord(path, format, table, text, whole) ==
    [path |-> path, format |-> format, table |-> table, text |-> text,
     whole |-> whole]

\* the files on disk when detection raises: the exception leaves
\* anonymize_file before any write
WrittenOnFailure == written

InitFile ==
    /\ tieBreak \in TieBreaks
    /\ ncalls = 0 /\ last = NoTrace(PyNone)
    /\ df = NoTable /\ result_df = NoTable
    /\ FileIdle

\* main: anonymize_file(args.input, args.output), up to the dispatch on ext
Begin ==
    /\ pc = "idle"
    /\ \E i \in InputPaths, o \in OutputPaths :
          /\ input_path' = i
          /\ output_path' = o
          /\ ext' = ExtensionOf(i)
    /\ pc' = "load"
    /\ UNCHANGED <<tieBreak, ncalls, last, df, result_df, all_text,
                   anonymized_text, returned, written, error, stages, loaded,
                   redactor_args>>

ReadCsv ==
    /\ pc = "load" /\ ext = ExtCsv
    /\ \E t \in FileTables : df' = t /\ loaded' = t
    /\ stages' = Append(stages, "load")
    /\ pc' = "normalize"
    /\ UNCHANGED <<tieBreak, ncalls, last, result_df, input_path,
                   output_path, ext, all_text, anonymized_text, returned,
                   written, error, redactor_args>>

ReadExcel ==
    /\ pc = "load" /\ ext \in {ExtXls, ExtXlsx}
    /\ \E t \in FileTables : df' = t /\ loaded' = t
    /\ stages' = Append(stages, "load")
    /\ pc' = "normalize"
    /\ UNCHANGED <<tieBreak, ncalls, last, result_df, input_path,
                   output_path, ext, all_text, anonymized_text, returned,
                   written, error, redactor_args>>

\* whether utf-8 with strict errors can encode the text: a lone surrogate
\* makes print and f.write raise UnicodeEncodeError
Encodable(s) ==
    \A k \in 1..Len(s) :
        ~(/\ Len(s[k]) = 6 /\ SubSeq(s[k], 1, 3) = "U+D"
          /\ SubSeq(s[k], 4, 4) \in {"8", "9", "A", "B", "C", "D", "E", "F"})

\* the length of the preview: all_text[:500]
PreviewLength == 500

\* whether print(all_text[:500]) passes
Printable(s) ==
    Encodable(SubSeq(s, 1, IF Len(s) < PreviewLength THEN Len(s)
                           ELSE PreviewLength))

\* the text of the pages is extracted and its preview printed
ReadPdf ==
    /\ pc = "load" /\ ext = ExtPdf
    /\ \E pages \in PdfDocs :
          /\ Printable(JoinLines(pages))
          /\ all_text' = JoinLines(pages)
    /\ stages' = Append(stages, "load")
    /\ pc' = "redact_text"
    /\ UNCHANGED <<tieBreak, ncalls, last, df, result_df,
                   input_path, output_path, ext, anonymized_text, returned,
                   written, error, loaded, redactor_args>>

\* print(all_text[:500]) raises UnicodeEncodeError: the redactor is not
\* called, nothing is returned or written
PreviewFails ==
    /\ pc = "load" /\ ext = ExtPdf
    /\ \E pages \in PdfDocs :
          /\ ~Printable(JoinLines(pages))
          /\ all_text' = JoinLines(pages)
    /\ stages' = Append(stages, "load")
    /\ error' = "UnicodeEncodeError"
    /\ pc' = "aborted"
    /\ UNCHANGED <<tieBreak, ncalls, last, df, result_df,
                   input_path, output_path, ext, anonymized_text, returned,
                   written, loaded, redactor_args>>

\* the file is missing or cannot be parsed: the reader raises
ReadFails ==
    /\ pc = "load" /\ ext \in {ExtCsv, ExtXls, ExtXlsx, ExtPdf}
    /\ error' = "ReadError"
    /\ pc' = "aborted"
    /\ UNCHANGED <<tieBreak, ncalls, last, df, result_df,
                   input_path, output_path, ext, all_text, anonymized_text,
                   returned, written, stages, loaded, redactor_args>>

\* raise ValueError("Unsupported file format...")
RaiseUnsupported ==
    /\ pc = "load" /\ ext \notin {ExtCsv, ExtXls, ExtXlsx, ExtPdf}
    /\ error' = "ValueError"
    /\ pc' = "aborted"
    /\ UNCHANGED <<tieBreak, ncalls, last, df, result_df,
                   input_path, output_path, ext, all_text, anonymized_text,
                   returned, written, stages, loaded, redactor_args>>

Normalize ==
    /\ pc = "normalize"
    /\ df' = IF HasAadhaar(df) THEN NormalizeTable(df) ELSE df
    /\ stages' = Append(stages, "normalize")
    /\ pc' = "redact"
    /\ UNCHANGED <<tieBreak, ncalls, last, result_df, input_path,
                   output_path, ext, all_text, anonymized_text, returned,
                   written, error, loaded, redactor_args>>

\* result_df = anonymize_dataframe(df)
Redact ==
    /\ pc = "redact"
    /\ result_df' = anonymize_dataframe(df)
    /\ df' = CallerTable(df)
    /\ redactor_args' = RedactorArgs(df)
    /\ stages' = Append(stages, "redact")
    /\ pc' = "emit"
    /\ UNCHANGED <<tieBreak, ncalls, last, input_path, output_path,
                   ext, all_text, anonymized_text, returned, written, error,
                   loaded>>

\* anonymized_text = _anonymize_text(all_text)
RedactText ==
    /\ pc = "redact_text"
    /\ anonymized_text' = anonymize_text(PyStrVal(all_text)).s
    /\ redactor_args' = {[col |-> 0, row |-> 0, arg |-> PyStrVal(all_text)]}
    /\ stages' = Append(stages, "redact")
    /\ pc' = "emit_text"
    /\ UNCHANGED <<tieBreak, ncalls, last, df, result_df, input_path,
                   output_path, ext, all_text, returned, written, error,
                   loaded>>

\* analyzer.analyze raises on the call for some cell f, or on the call for
\* the document text: the values up to that call have been passed
DetectionFails ==
    /\ pc \in {"redact", "redact_text"}
    /\ \E f \in IF pc = "redact" THEN RedactorArgs(df)
               ELSE {[col |-> 0, row |-> 0, arg |-> PyStrVal(all_text)]} :
          /\ RedactCall(f.arg).analyzed
          /\ redactor_args' = IF pc = "redact" THEN CallsUpTo(df, f) ELSE {f}
    /\ written' = WrittenOnFailure
    /\ error' = "DetectionFailure"
    /\ pc' = "aborted"
    /\ UNCHANGED <<tieBreak, ncalls, last, df, result_df,
                   input_path, output_path, ext, all_text, anonymized_text,
                   returned, stages, loaded>>

\* os.path.splitext(path)[1][1:]: the text after the last dot of the last
\* component of the path, when something other than dots comes before it
SplitExt(path) ==
    LET seps == {k \in 1..Len(path) : path[k] = "/"}
        sep == IF seps = {} THEN 0 ELSE CHOOSE k \in seps : \A j \in seps : j <= k
        dots == {k \in (sep + 1)..Len(path) : path[k] = "."}
        dot == IF dots = {} THEN 0 ELSE CHOOSE k \in dots : \A j \in dots : j <= k
    IN  IF dot > 0 /\ \E k \in (sep + 1)..(dot - 1) : path[k] # "."
        THEN SubSeq(path, dot + 1, Len(path))
        ELSE <<>>

\* the file types to_excel has, or in older releases had, a writer for
ExcelWriterFormats ==
    {<<"x", "l", "s", "x">>, <<"x", "l", "s", "m">>, <<"x", "l", "s">>,
     <<"o", "d", "s">>}

\* whether to_excel finds a writer for the path: without one it raises
\* ValueError("No engine for filetype")
HasExcelWriter(path) == Lower(SplitExt(path)) \in ExcelWriterFormats

\* output_path.replace('.pdf', '_anonymized.txt')
TextOutputPath ==
    Replace(output_path, <<".", "p", "d", "f">>,
            <<"_", "a", "n", "o", "n", "y", "m", "i", "z", "e", "d", ".", "t",
              "x", "t">>)

\* the first n rows of a table
FirstRows(t, n) ==
    [k \in 1..Len(t) |-> [t[k] EXCEPT !.cells = SubSeq(@, 1, n)]]

\* the files a write that raises after opening the output can leave: the
\* text cut after any number of its items short of all, a csv file cut
\* after any number of rows short of all, an Excel file with no row; none
\* when to_excel has no writer for the path, which it finds out first
CutFiles ==
    IF pc = "emit_text"
    THEN {FileRecord(TextOutputPath, "text", <<>>,
                     SubSeq(anonymized_text, 1, n), FALSE) :
            n \in 0..(Len(anonymized_text) - 1)}
    ELSE IF ext = ExtCsv
    THEN {FileRecord(output_path, "csv", FirstRows(result_df, n), <<>>,
                     FALSE) :
            n \in 0..(IF NRows(result_df) = 0 THEN 0
                      ELSE NRows(result_df) - 1)}
    ELSE IF HasExcelWriter(output_path)
    THEN {FileRecord(output_path, "excel", FirstRows(result_df, 0), <<>>,
                     FALSE)}
    ELSE {}

\* to_csv / to_excel when an output path is given, then return result_df
Emit ==
    /\ pc = "emit"
    /\ output_path # NoPath /\ ext # ExtCsv => HasExcelWriter(output_path)
    /\ written' =
          IF output_path # NoPath
          THEN written \cup
                 {FileRecord(output_path,
                             IF ext = ExtCsv THEN "csv" ELSE "excel",
                             result_df, <<>>, TRUE)}
          ELSE written
    /\ returned' = [kind |-> "table", table |-> result_df, text |-> <<>>]
    /\ stages' = Append(stages, "emit")
    /\ pc' = "done"
    /\ UNCHANGED <<tieBreak, ncalls, last, df, result_df, input_path,
                   output_path, ext, all_text, anonymized_text, error, loaded,
                   redactor_args>>

\* the text written to output_path.replace('.pdf', '_anonymized.txt')
EmitText ==
    /\ pc = "emit_text"
    /\ output_path # NoPath => Encodable(anonymized_text)
    /\ written' =
          IF output_path # NoPath
          THEN written \cup
                 {FileRecord(TextOutputPath, "text", <<>>, anonymized_text,
                             TRUE)}
          ELSE written
    /\ returned' = [kind |-> "text", table |-> <<>>, text |-> anonymized_text]
    /\ stages' = Append(stages, "emit")
    /\ pc' = "done"
    /\ UNCHANGED <<tieBreak, ncalls, last, df, result_df, input_path,
                   output_path, ext, all_text, anonymized_text, error, loaded,
                   redactor_args>>

\* the output cannot be written: open(), f.write, to_csv or to_excel raises
\* after redaction has finished and nothing is returned.  No file is made
\* when the output cannot be opened; once it is open, with mode 'w', the
\* file exists and holds what was written before the exception
WriteFails ==
    /\ pc \in {"emit", "emit_text"}
    /\ output_path # NoPath
    /\ \E fs \in {{}} \cup {{f} : f \in CutFiles} : written' = written \cup fs
    /\ error' = "WriteError"
    /\ pc' = "aborted"
    /\ UNCHANGED <<tieBreak, ncalls, last, df, result_df, input_path,
                   output_path, ext, all_text, anonymized_text, returned,
                   stages, loaded, redactor_args>>

Next ==
    \/ Begin
    \/ ReadCsv
    \/ ReadExcel
    \/ ReadPdf
    \/ PreviewFails
    \/ ReadFails
    \/ RaiseUnsupported
    \/ Normalize
    \/ Redact
    \/ RedactText
    \/ DetectionFails
    \/ Emit
    \/ EmitText
    \/ WriteFails

Spec == InitFile /\ [][Next]_vars

(***************************************************************************)
(* Properties.                                                             *)
(***************************************************************************)
SupportedExtensions == {ExtCsv, ExtXls, ExtXlsx, ExtPdf}

\* the text after the last '.' of a path (the whole path when it has none),
\* in lower case
TextAfterLastDot(path) ==
    LET dots == {k \in 1..Len(path) : path[k] = "."}
        lastDot == IF dots = {} THEN 0
                   ELSE CHOOSE k \in dots : \A j \in dots : j <= k
    IN  Lower(SubSeq(path, lastDot + 1, Len(path)))

\* C1: a run on an input path whose extension is not csv, xls, xlsx or pdf
\* ends in the unsupported-format error, and nothing has been loaded,
\* normalized, redacted, returned or written, with or without an output path.
C1_UnsupportedFormat ==
    TextAfterLastDot(input_path) \notin SupportedExtensions =>
        /\ pc \in {"idle", "load", "aborted"}
        /\ pc = "aborted" => error = "ValueError"
        /\ written = {} /\ stages = <<>> /\ redactor_args = {}
        /\ df = NoTable /\ result_df = NoTable /\ returned = Nothing

C1_Witness ==
    /\ pc = "aborted" /\ error = "ValueError"
    /\ input_path = PathCsvBak /\ output_path = OutCsv

\* every text cell of the table was handed to the redactor
AllTextCellsRedacted ==
    \A k \in 1..Len(df) :
        df[k].dtype = "object" =>
            \A i \in 1..NRows(df) :
                [col |-> k, row |-> i, arg |-> df[k].cells[i]] \in redactor_args

\* C2 as stated: processing is all-or-nothing with respect to output.  Every
\* file of the run is the whole output of a run that went to its end without
\* an error; a file exists only once every text cell, or the whole document
\* text, has been redacted; and a run in which the load, the normalization
\* or the detection failed has written nothing.
C2_AllOrNothing ==
    /\ \A f \in written :
          /\ pc = "done" /\ error = "none" /\ f.whole
          /\ f.table = result_df /\ f.text = anonymized_text
    /\ written # {} =>
          \/ /\ Len(stages) >= 3
             /\ SubSeq(stages, 1, 3) = <<"load", "normalize", "redact">>
             /\ AllTextCellsRedacted
          \/ /\ Len(stages) >= 2
             /\ SubSeq(stages, 1, 2) = <<"load", "redact">>
             /\ redactor_args =
                   {[col |-> 0, row |-> 0, arg |-> PyStrVal(all_text)]}
    /\ error \in {"ReadError", "ValueError", "DetectionFailure"} =>
          pc = "aborted" /\ written = {}

\* C3: every entity type of the detection request has an operator, an
\* unlisted type gets the DEFAULT replace operator, and after a call in which
\* detection found something every detected span lies in a piece of the
\* returned text that an operator has replaced by something else.
C3_EverySpanTransformed ==
    /\ \A e \in RequestedEntities : e \in DOMAIN operators
    /\ "DEFAULT" \in DOMAIN operators
    /\ OperatorFor(operators, "UNLISTED_TYPE").name = "replace"
    /\ (ncalls > 0 /\ last.results # {}) =>
          /\ last.ret.s = PiecesText(last.pieces)
          /\ \A r \in last.results :
                \E k \in 1..Len(last.pieces) :
                    /\ last.pieces[k].start <= r.start
                    /\ r.end <= last.pieces[k].end
                    /\ last.pieces[k].operator \in {"hash", "replace"}
                    /\ last.pieces[k].repl # last.pieces[k].orig

C3_Witness ==
    /\ ncalls > 0 /\ last.arg = PyStrVal(TxtCallPhone)
    /\ Cardinality(last.results) = 2
    /\ last.ret.s = <<"c", "a", "l", "l", " ", "sha256(xyz123+9876543210)">>

\* C4: after anonymize_dataframe a column that is not a text column holds
\* the cells it held before, and none of its cells went to the redactor.
C4_NonTextColumnsUntouched ==
    pc = "returned" =>
        \A k \in 1..Len(loaded) :
            loaded[k].dtype # "object" =>
                /\ result_df[k] = loaded[k]
                /\ \A a \in redactor_args : a.col # k

C4_Witness ==
    /\ pc = "returned" /\ Len(loaded) = 2
    /\ loaded[1].dtype = "object" /\ result_df[1] # loaded[1]
    /\ loaded[2].dtype = "int64" /\ NRows(loaded) >= 1
    /\ result_df[2].cells[1] = PyInt(FALSE, <<9, 8, 7, 6, 5, 4, 3, 2, 1, 0>>)

CountDigits(s) == Cardinality({k \in 1..Len(s) : IsDigit(s[k])})

AadhaarColumns == {k \in 1..Len(loaded) : loaded[k].name = "Aadhaar"}

\* C5 as stated: an Aadhaar field with 12 digits is dashed, any other field
\* reaches detection with the text it had when loaded.
C5_Original ==
    pc \in {"redact", "emit", "done"} =>
        \A k \in AadhaarColumns :
            \A i \in 1..NRows(loaded) :
                LET before == PyStr(loaded[k].cells[i])
                    after == df[k].cells[i]
                IN  IF CountDigits(before) = 12
                    THEN /\ Len(after.s) = 14
                         /\ after.s[5] = "-" /\ after.s[10] = "-"
                    ELSE PyStr(after) = before

\* C5, amended: an Aadhaar field with 12 digits reaches detection as those
\* digits in the dashed form dddd-dddd-dddd; any other field reaches
\* detection as its digits alone, every other character removed.
C5_Normalized ==
    pc \in {"redact", "emit", "done"} =>
        \A k \in AadhaarColumns :
            \A i \in 1..NRows(loaded) :
                LET before == PyStr(loaded[k].cells[i])
                    after == df[k].cells[i]
                    kept == {j \in 1..Len(before) : IsDigit(before[j])}
                IN  /\ after.t = "str"
                    /\ CountDigits(after.s) = Cardinality(kept)
                    /\ \A j \in kept :
                          \E m \in 1..Len(after.s) :
                              /\ after.s[m] = before[j]
                              /\ CountDigits(SubSeq(after.s, 1, m))
                                   = Cardinality({x \in kept : x <= j})
                    /\ IF Cardinality(kept) = 12
                       THEN /\ Len(after.s) = 14
                            /\ after.s[5] = "-" /\ after.s[10] = "-"
                       ELSE Len(after.s) = Cardinality(kept)
                    /\ pc \in {"emit", "done"} =>
                          [col |-> k, row |-> i, arg |-> after] \in redactor_args

C5_Witness ==
    /\ pc = "emit" /\ NRows(loaded) >= 2
    /\ \E k \in AadhaarColumns :
          /\ loaded[k].cells[1] = PyStrVal(TxtAadhaarSpaced)
          /\ df[k].cells[1] = PyStrVal(TxtAadhaar)
          /\ loaded[k].cells[2] = PyStrVal(TxtShortId)
          /\ df[k].cells[2] = PyStrVal(<<"1", "2", "3", "4">>)

IsBlank(v) == v.t = "str" /\ \A k \in 1..Len(v.s) : IsSpace(v.s[k])

\* C6 as stated: for an empty or whitespace-only string the redactor returns
\* the value it was given and does not call detection.
C6_BlankUnchanged ==
    (ncalls > 0 /\ IsBlank(last.arg)) =>
        last.ret = last.arg /\ ~last.analyzed

\* C7 as stated: when detection finds nothing in a non-empty input, the
\* redactor returns the value it was given.
C7_NoResultsUnchanged ==
    (ncalls > 0 /\ last.analyzed /\ last.results = {}) => last.ret = last.arg

\* C9: the table anonymize_dataframe returns has the columns of the input
\* table in the same order and as many rows in every column, the cell of a
\* row is that row's input cell or its redaction, and the caller's table is
\* what it was before the call.
C9_ShapePreserved ==
    pc = "returned" =>
        /\ Len(result_df) = Len(loaded)
        /\ ColumnNames(result_df) = ColumnNames(loaded)
        /\ \A k \in 1..Len(loaded) :
              /\ Len(result_df[k].cells) = Len(loaded[k].cells)
              /\ \A i \in 1..Len(loaded[k].cells) :
                    result_df[k].cells[i] \in
                        {loaded[k].cells[i], RedactCall(loaded[k].cells[i]).ret}
        /\ df = loaded

C9_Witness ==
    /\ pc = "returned" /\ Len(df) = 2 /\ NRows(df) >= 2
    /\ result_df[1].cells[1] # df[1].cells[1]
    /\ result_df[1].cells[2] = df[1].cells[2]

\* C10: in a run on a tabular file the Aadhaar column is a text column after
\* normalization, whatever dtype it was loaded with, and each of its cells
\* goes to the redactor; every other column loaded with a non-text dtype is
\* in the returned and in the written table as it was loaded.
C10_AadhaarAlwaysRedacted ==
    pc \in {"emit", "done"} =>
        \A k \in 1..Len(loaded) :
            /\ loaded[k].name = "Aadhaar" =>
                  /\ df[k].dtype = "object"
                  /\ \A i \in 1..NRows(loaded) :
                        \E a \in redactor_args :
                            a.col = k /\ a.row = i /\ a.arg.t = "str"
            /\ (loaded[k].name # "Aadhaar" /\ loaded[k].dtype # "object") =>
                  /\ result_df[k] = loaded[k]
                  /\ pc = "done" => returned.table[k] = loaded[k]
                  /\ \A f \in written : f.table[k] = loaded[k]

C10_Witness ==
    /\ pc = "done" /\ written # {} /\ Len(loaded) = 2 /\ NRows(loaded) >= 1
    /\ loaded[1].name = "Aadhaar" /\ loaded[1].dtype = "int64"
    /\ loaded[1].cells[1] = AadhaarInt
    /\ result_df[1].cells[1] = PyStrVal(<<"sha256(xyz123+1234-5678-9012)">>)
    /\ loaded[2].dtype = "int64" /\ result_df[2] = loaded[2]

=============================================================================
